---------------------------- MODULE Spec2Model ----------------------------
(***************************************************************************)
(* logEater: key normalisation, skeleton building, dot-path resolution,    *)
(* the schema extractor and the default extraction strategy.               *)
(*                                                                         *)
(* Strings are sequences of one-character strings.  A JSON value is a      *)
(* tagged record: a primitive [t |-> "prim", v |-> token], an array        *)
(* [t |-> "arr", e |-> <<elements>>], an object [t |-> "obj", kv |->       *)
(* <<[k |-> key, v |-> value], ...>>] that keeps Python's insertion order. *)
(* Python's None (JSON null, and the resolver's absence marker) is the     *)
(* primitive whose token is "None".                                        *)
(***************************************************************************)
EXTENDS Integers, Sequences, FiniteSets, TLC

VARIABLES
    pc,         \* position of the call under study
    key,        \* normalize_key: the raw key passed in
    k_delim,    \* normalize_key: local k_delim (result of the delimiter rule)
    norm1,      \* normalize_key(key)
    norm2,      \* normalize_key(norm1)
    data,       \* the parsed JSON value handed to the walker / skeleton builder
    dot_path,   \* get_dot_value: the path string
    result,     \* the value returned by the call under study
    sample_log_text,  \* extract_schema: the sample handed in
    prompt,           \* extract_schema: local prompt
    calls,            \* the invocations of the text generator so far
    attempts,         \* extract_schema: local attempts
    last_raw,         \* extract_schema: local last_raw
    error,            \* the exception the call under study raised
    schema_skeleton,  \* DefaultParser._schema_skeleton
    fields,           \* DefaultParser.extract: the requested paths
    schema_name,      \* ParserFactory.get: the schema identifier
    parsers_dir,      \* core/schema/parsers: the generated parser modules
    inst,             \* ParserFactory.get: the strategy returned
    files,            \* _collect_records: the discovered files, by content
    records,          \* _collect_records: local records
    scanned,          \* _collect_records: local scanned
    ok,               \* _collect_records: local ok
    failed,           \* _collect_records: local failed
    summary,          \* the ExtractionSummary returned by extract_to_json
    result_area,      \* ExtractPanel.result_area: the text shown
    base_schema,      \* SchemaWorker.run: local base_schema
    refined,          \* SchemaWorker.run: local refined
    emitted,          \* SchemaWorker: the signal emitted
    schema_preview,   \* ClassRegistrationDialog.schema_preview
    text,             \* _split_text: the text
    chunk_chars,      \* _split_text: the chunk size
    start,            \* _split_text: local start
    split_parts       \* _split_text: local parts

extractor_vars == <<sample_log_text, prompt, calls, attempts, last_raw, error>>

parser_vars == <<schema_skeleton, fields>>

factory_vars == <<schema_name, parsers_dir, inst>>

collect_vars == <<files, records, scanned, ok, failed, summary, result_area>>

worker_vars == <<base_schema, refined, emitted, schema_preview>>

split_vars == <<text, chunk_chars, start, split_parts>>

late_vars == <<factory_vars, collect_vars, worker_vars, split_vars>>

vars == <<pc, key, k_delim, norm1, norm2, data, dot_path, result,
          sample_log_text, prompt, calls, attempts, last_raw, error,
          schema_skeleton, fields, late_vars>>

-----------------------------------------------------------------------------
(* Bounds of the model *)

MaxKeyLen == 4
MaxWalkNodes == 4
MaxPathLen == 3
MaxSkelNodes == 4
MaxArr == 2
MaxObj == 2
MaxSchemaDepth == 2
MaxPassNodes == 3
MaxParserNodes == 3

-----------------------------------------------------------------------------
(* Characters and strings *)

Whitespace == {" ", "\n", "\t"}

AsciiLower ==
    {"a","b","c","d","e","f","g","h","i","j","k","l","m",
     "n","o","p","q","r","s","t","u","v","w","x","y","z"}

AsciiUpper ==
    {"A","B","C","D","E","F","G","H","I","J","K","L","M",
     "N","O","P","Q","R","S","T","U","V","W","X","Y","Z"}

AsciiLetter == AsciiLower \cup AsciiUpper

Digits == {"0","1","2","3","4","5","6","7","8","9"}

\* the em-dash U+2014, one character of a key
EmDash == "U+2014"

SetMin(S) == CHOOSE x \in S : \A y \in S : x <= y

SetMax(S) == CHOOSE x \in S : \A y \in S : x >= y

\* str.strip(): drop leading and trailing whitespace
Strip(s) ==
    LET idx == {i \in 1..Len(s) : s[i] \notin Whitespace}
    IN  IF idx = {} THEN <<>> ELSE SubSeq(s, SetMin(idx), SetMax(idx))

\* s is a prefix of t
IsPrefix(s, t) == Len(s) <= Len(t) /\ SubSeq(t, 1, Len(s)) = s

\* the pattern atoms alt[1..] match s from position j on
MatchesAt(s, j, alt) ==
    /\ j >= 1
    /\ j + Len(alt) - 1 <= Len(s)
    /\ \A i \in 1..Len(alt) : s[j + i - 1] \in alt[i]

\* ".*$" from position j on: "." matches no newline, and the subject is a
\* stripped key (it does not end in a newline), so "$" matches at its end only
RestOfLine(s, j) == \A i \in j..Len(s) : s[i] # "\n"

-----------------------------------------------------------------------------
(* normalize_key *)

\* The alternatives of _DELIM_PATTERN, in order.  The pattern is compiled
\* with re.VERBOSE, which drops the unescaped blanks of the last alternative
\* " - ": what is left of it is a bare hyphen.
DelimAlternatives ==
    << <<{"-"}, {"-"}>>,
       <<{EmDash}>>,
       <<{":"}, {"-"}>>,
       <<{":"}, {"-"}, Whitespace>>,
       <<{"-"}, Whitespace>>,
       <<{":"}>>,
       <<{"-"}>> >>

\* _DELIM_PATTERN matches s from position i on:  \s* delimiter .*$
DelimMatchAt(s, i) ==
    \E j \in i..Len(s) :
        /\ \A m \in i..(j - 1) : s[m] \in Whitespace
        /\ \E a \in 1..Len(DelimAlternatives) :
              /\ MatchesAt(s, j, DelimAlternatives[a])
              /\ RestOfLine(s, j + Len(DelimAlternatives[a]))

\* the substitution with the wrong side kept: the commentary, not the base
DelimSubKeepTail(s) ==
    LET starts == {i \in 1..Len(s) : DelimMatchAt(s, i)}
    IN  IF starts = {} THEN s ELSE SubSeq(s, SetMin(starts), Len(s))

\* _DELIM_PATTERN.sub("", s): the leftmost match runs to the end of s
DelimSub(s) ==
    LET starts == {i \in 1..Len(s) : DelimMatchAt(s, i)}
    IN  IF starts = {} THEN s ELSE SubSeq(s, 1, SetMin(starts) - 1)

\* the suffix alternatives of _INDEX_SUFFIX followed by .*$ match s from j on
IndexSuffixAt(s, j) ==
    \/ /\ MatchesAt(s, j, <<{"_"}, {"o"}, {"f"}, {"_"}, Digits>>)
       /\ RestOfLine(s, j + 5)
    \/ /\ MatchesAt(s, j, <<{"_"}, Digits>>)
       /\ RestOfLine(s, j + 2)
    \/ /\ MatchesAt(s, j, <<{"-"}, Digits>>)
       /\ RestOfLine(s, j + 2)
    \/ \E m \in (j + 1)..Len(s) :
          /\ \A i \in j..(m - 1) : s[i] \in Whitespace
          /\ s[m] \in Digits
          /\ RestOfLine(s, m + 1)

\* the ends e of a base s[1..e] = [A-Za-z][A-Za-z0-9 ]* after which the
\* suffix matches
IndexBaseEnds(s) ==
    {e \in 1..Len(s) :
        /\ s[1] \in AsciiLetter
        /\ \A i \in 2..e : s[i] \in AsciiLetter \cup Digits \cup {" "}
        /\ IndexSuffixAt(s, e + 1)}

\* m.group(1) of _INDEX_SUFFIX.match(s): the base is matched greedily
IndexBase(s) == SubSeq(s, 1, SetMax(IndexBaseEnds(s)))

\* heuristic of line 63: a tail longer than this is noise
LongTail == 10

\* head, *rest = k.split("_"): head is what precedes the first underscore
SplitHead(s) ==
    LET us == {i \in 1..Len(s) : s[i] = "_"}
    IN  SubSeq(s, 1, SetMin(us) - 1)

\* "_".join(rest): what follows the first underscore
SplitTail(s) ==
    LET us == {i \in 1..Len(s) : s[i] = "_"}
    IN  SubSeq(s, SetMin(us) + 1, Len(s))

normalize_key(raw) ==
    LET k  == Strip(raw)
        kd == DelimSub(k)
    IN  IF kd # <<>> /\ kd # k
          THEN Strip(kd)
        ELSE IF IndexBaseEnds(k) # {}
          THEN Strip(IndexBase(k))
        ELSE IF /\ \E i \in 1..Len(k) : k[i] = "_"
                /\ \/ \E i \in 1..Len(SplitTail(k)) : SplitTail(k)[i] \in Digits
                   \/ Len(SplitTail(k)) > LongTail
          THEN Strip(SplitHead(k))
        ELSE k

-----------------------------------------------------------------------------
(* Inputs of the key normaliser *)

\* all strings over alphabet A of length at most n
RECURSIVE StringsUpTo(_, _)
StringsUpTo(A, n) ==
    IF n = 0 THEN {<<>>}
    ELSE LET shorter == StringsUpTo(A, n - 1)
         IN  shorter \cup {Append(s, c) : s \in shorter, c \in A}

KeyAlphabet == {"a", "B", "1", "_", "-", ":", " ", "\n"}

\* keys of the source's comments (lines 13-18) and of the specification
SampleKeys ==
    { <<"r","e","s","p","o","n","s","e","_","o","f","_","1">>,
      <<"s","u","b","q","u","e","r","y","_","3","_","d","e","t","a","i","l","s">>,
      <<"f","i","n","a","l","_","p","r","o","m","p","t"," ","-"," ","x">>,
      <<"r","e","q","u","e","s","t",":"," ","u","s","e","r">>,
      <<"c","h","a","t"," ","h","i","s","t","o","r","y","-","-","x">>,
      <<"c","h","a","t",EmDash,"x">>,
      <<"R","e","s","p","o","n","s","e","-","-","n","o","t","e","s">>,
      <<"S","c","o","r","e","s","_","o","f","_","3">>,
      <<"s","t","a","t","u","s","_","o","f","_","3">>,
      <<"b","a","s","e","_","1","2","-","-","c","o","m","m","e","n","t">>,
      <<"u","s","e","r","-","i","d">>,
      <<"a","_","b","c","d","e","f","g","h","i","j","k","l">>,
      <<"a","_","b","c","d","e","f","g","h","i","j","k">>,
      <<"a","_","b","_","c","2">> }

Keys == StringsUpTo(KeyAlphabet, MaxKeyLen) \cup SampleKeys

Idle == "idle"

\* no call of the schema extractor is under study
ExtractorIdle ==
    /\ sample_log_text = Idle
    /\ prompt = Idle
    /\ calls = Idle
    /\ attempts = Idle
    /\ last_raw = Idle
    /\ error = Idle

\* no call of the default parser is under study
ParserIdle ==
    /\ schema_skeleton = Idle
    /\ fields = Idle

FactoryIdle ==
    /\ schema_name = Idle
    /\ parsers_dir = Idle
    /\ inst = Idle

CollectIdle ==
    /\ files = Idle
    /\ records = Idle
    /\ scanned = Idle
    /\ ok = Idle
    /\ failed = Idle
    /\ summary = Idle
    /\ result_area = Idle

WorkerIdle ==
    /\ base_schema = Idle
    /\ refined = Idle
    /\ emitted = Idle
    /\ schema_preview = Idle

SplitIdle ==
    /\ text = Idle
    /\ chunk_chars = Idle
    /\ start = Idle
    /\ split_parts = Idle

LateIdle ==
    /\ FactoryIdle
    /\ CollectIdle
    /\ WorkerIdle
    /\ SplitIdle

InitNormalize ==
    /\ pc = "start"
    /\ key \in Keys
    /\ k_delim = Idle
    /\ norm1 = Idle
    /\ norm2 = Idle
    /\ data = Idle
    /\ dot_path = Idle
    /\ result = Idle
    /\ ExtractorIdle
    /\ ParserIdle
    /\ LateIdle

\* normalize_key(key)
Normalize ==
    /\ pc = "start"
    /\ pc' = "normalized"
    /\ k_delim' = DelimSub(Strip(key))
    /\ norm1' = normalize_key(key)
    /\ UNCHANGED <<key, norm2, data, dot_path, result>>
    /\ UNCHANGED <<extractor_vars, parser_vars>>
    /\ UNCHANGED late_vars

\* normalize_key applied to its own result
NormalizeAgain ==
    /\ pc = "normalized"
    /\ pc' = "renormalized"
    /\ norm2' = normalize_key(norm1)
    /\ UNCHANGED <<key, k_delim, norm1, data, dot_path, result>>
    /\ UNCHANGED <<extractor_vars, parser_vars>>
    /\ UNCHANGED late_vars

NextNormalize == Normalize \/ NormalizeAgain

SpecNormalize == InitNormalize /\ [][NextNormalize]_vars

-----------------------------------------------------------------------------
(* Properties of the key normaliser *)

UpperSeq ==
    <<"A","B","C","D","E","F","G","H","I","J","K","L","M",
      "N","O","P","Q","R","S","T","U","V","W","X","Y","Z">>

LowerSeq ==
    <<"a","b","c","d","e","f","g","h","i","j","k","l","m",
      "n","o","p","q","r","s","t","u","v","w","x","y","z">>

\* the string with its letters lower-cased
ToLower(s) ==
    [i \in 1..Len(s) |->
        IF s[i] \in AsciiUpper
          THEN LowerSeq[CHOOSE n \in 1..26 : UpperSeq[n] = s[i]]
          ELSE s[i]]

\* the string with every run of whitespace collapsed to one blank
RECURSIVE CollapseWs(_)
CollapseWs(s) ==
    IF s = <<>> THEN <<>>
    ELSE IF Head(s) \in Whitespace
      THEN IF Len(s) > 1 /\ s[2] \in Whitespace
             THEN CollapseWs(Tail(s))
             ELSE <<" ">> \o CollapseWs(Tail(s))
    ELSE <<Head(s)>> \o CollapseWs(Tail(s))

Fold(s) == ToLower(CollapseWs(s))

\* C1: normalisation is idempotent: normalising the normalised key gives
\* the normalised key again.
C1_Idempotent == pc = "renormalized" => norm2 = norm1

\* C3: normalize_key only removes a trailing part of the key: its result is
\* a string that is a prefix of the stripped key, exactly and therefore also
\* up to letter case and whitespace collapsing.
C3_OnlyRemovesTail ==
    pc # "start" =>
        /\ IsPrefix(norm1, Strip(key))
        /\ IsPrefix(Fold(norm1), Fold(Strip(key)))

\* a key that lost a non-empty tail and kept a non-empty base
C3_Witness ==
    /\ pc = "normalized"
    /\ norm1 # <<>>
    /\ Len(norm1) < Len(Strip(key))

\* the only hyphen of s stands directly between two letters, and s holds
\* no other delimiter character
LoneHyphenBetweenLetters(s) ==
    /\ Cardinality({i \in 1..Len(s) : s[i] = "-"}) = 1
    /\ \A i \in 1..Len(s) :
          /\ s[i] \notin {":", EmDash}
          /\ s[i] = "-" =>
                /\ 1 < i /\ i < Len(s)
                /\ s[i - 1] \in AsciiLetter
                /\ s[i + 1] \in AsciiLetter

\* C4: the delimiter rule cuts the key at a listed delimiter (--, em-dash,
\* colon-blank, hyphen-whitespace, colon) and at no other character: a key
\* whose only hyphen is a single hyphen directly between two letters is not
\* cut by the delimiter rule.
C4_LoneHyphenNotCut ==
    pc # "start" =>
        (LoneHyphenBetweenLetters(Strip(key)) => k_delim = Strip(key))

-----------------------------------------------------------------------------
(* JSON values *)

Prim(tok) == [t |-> "prim", v |-> tok]

Arr(es) == [t |-> "arr", e |-> es]

Obj(kvs) == [t |-> "obj", kv |-> kvs]

\* Python's None: JSON null, and the absence marker of the resolver
None == Prim("None")

\* the keys of a dict
DictKeys(d) == {d.kv[i].k : i \in 1..Len(d.kv)}

\* d[k]
DictGet(d, k) == d.kv[CHOOSE i \in 1..Len(d.kv) : d.kv[i].k = k].v

\* d[k] = v: an existing key keeps its place, a new key goes last
DictSet(d, k, v) ==
    IF k \in DictKeys(d)
      THEN Obj([i \in 1..Len(d.kv) |->
                  IF d.kv[i].k = k THEN [k |-> k, v |-> v] ELSE d.kv[i]])
      ELSE Obj(Append(d.kv, [k |-> k, v |-> v]))

\* sequences of m distinct keys of K
KeySeqs(K, m) ==
    {s \in [1..m -> K] : \A i, j \in 1..m : i # j => s[i] # s[j]}

\* sequences of exactly m values, of sizes[a] for some a each, with s nodes
\* in all
RECURSIVE Forests(_, _, _)
Forests(sizes, s, m) ==
    IF m = 0 THEN (IF s = 0 THEN {<<>>} ELSE {})
    ELSE UNION {{<<tr>> \o f : tr \in sizes[a], f \in Forests(sizes, s - a, m - 1)} :
                  a \in 1..s}

\* the values of exactly n nodes (n > Len(sizes)), given those of fewer
TreesOfSize(P, K, sizes, n) ==
    (IF n = 1 THEN {Prim(p) : p \in P} ELSE {})
    \cup {Arr(f) : f \in UNION {Forests(sizes, n - 1, m) : m \in 0..MaxArr}}
    \cup UNION {{Obj([i \in 1..m |-> [k |-> ks[i], v |-> f[i]]]) :
                    ks \in KeySeqs(K, m), f \in Forests(sizes, n - 1, m)} :
                 m \in 0..MaxObj}

\* <<values of 1 node, values of 2 nodes, ..., values of n nodes>>
RECURSIVE TreeTable(_, _, _)
TreeTable(P, K, n) ==
    IF n = 0 THEN <<>>
    ELSE LET sizes == TreeTable(P, K, n - 1)
         IN  Append(sizes, TreesOfSize(P, K, sizes, n))

\* every JSON value of at most n nodes with primitives P and object keys K,
\* arrays of at most MaxArr elements, objects of at most MaxObj entries
TreesUpTo(P, K, n) ==
    LET sizes == TreeTable(P, K, n)
    IN  UNION {sizes[i] : i \in 1..n}

-----------------------------------------------------------------------------
(* core/utils/dot_walker.py *)

\* str.split("."): the segments between the dots
RECURSIVE SplitDots(_)
SplitDots(s) ==
    LET dots == {i \in 1..Len(s) : s[i] = "."}
    IN  IF dots = {} THEN <<s>>
        ELSE <<SubSeq(s, 1, SetMin(dots) - 1)>>
                \o SplitDots(SubSeq(s, SetMin(dots) + 1, Len(s)))

RECURSIVE walk(_, _)

\* lines 26-28 without the test: the collected list is returned as it is
collapse_never(collected) == Arr(collected)

\* lines 26-28: a list of None only collapses to None
collapse(collected) ==
    IF \A i \in 1..Len(collected) : collected[i] = None
      THEN None
      ELSE Arr(collected)

\* walk with a primitive handed back where the path cannot continue
walk_keeps_primitive(node, keys) ==
    IF keys = <<>> THEN node
    ELSE IF node.t = "obj"
      THEN IF Head(keys) \notin DictKeys(node)
             THEN None
             ELSE walk(DictGet(node, Head(keys)), Tail(keys))
    ELSE IF node.t = "arr"
      THEN collapse([i \in 1..Len(node.e) |-> walk(node.e[i], keys)])
    ELSE node

walk(node, keys) ==
    IF keys = <<>> THEN node
    ELSE IF node.t = "obj"
      THEN IF Head(keys) \notin DictKeys(node)
             THEN None
             ELSE walk(DictGet(node, Head(keys)), Tail(keys))
    ELSE IF node.t = "arr"
      THEN collapse([i \in 1..Len(node.e) |-> walk(node.e[i], keys)])
    ELSE None

get_dot_value(d, path) == walk(d, SplitDots(path))

-----------------------------------------------------------------------------
(* Inputs of the resolver *)

WalkPrims == {"None", "1"}

WalkKeys == {<<"x">>, <<"y">>}

PathAlphabet == {"x", "y", "."}

X == <<"x">>

Y == <<"y">>

Z == <<"z">>

\* {"x":[{"y":1},{"y":2}]}
BroadcastSample ==
    Obj(<<[k |-> X, v |-> Arr(<<Obj(<<[k |-> Y, v |-> Prim("1")]>>),
                                Obj(<<[k |-> Y, v |-> Prim("2")]>>)>>)]>>)

\* {"x":[{"z":1},{"z":2}]}
AbsentSample ==
    Obj(<<[k |-> X, v |-> Arr(<<Obj(<<[k |-> Z, v |-> Prim("1")]>>),
                                Obj(<<[k |-> Z, v |-> Prim("2")]>>)>>)]>>)

\* {"x":[{"y":1},{"z":2},{"y":[]}]}
MixedSample ==
    Obj(<<[k |-> X, v |-> Arr(<<Obj(<<[k |-> Y, v |-> Prim("1")]>>),
                                Obj(<<[k |-> Z, v |-> Prim("2")]>>),
                                Obj(<<[k |-> Y, v |-> Arr(<<>>)]>>)>>)]>>)

WalkData ==
    TreesUpTo(WalkPrims, WalkKeys, MaxWalkNodes)
        \cup {BroadcastSample, AbsentSample, MixedSample}

InitWalk ==
    /\ pc = "start"
    /\ data \in WalkData
    /\ dot_path \in StringsUpTo(PathAlphabet, MaxPathLen)
    /\ key = Idle
    /\ k_delim = Idle
    /\ norm1 = Idle
    /\ norm2 = Idle
    /\ result = Idle
    /\ ExtractorIdle
    /\ ParserIdle
    /\ LateIdle

\* get_dot_value(data, dot_path)
Resolve ==
    /\ pc = "start"
    /\ pc' = "resolved"
    /\ result' = get_dot_value(data, dot_path)
    /\ UNCHANGED <<key, k_delim, norm1, norm2, data, dot_path>>
    /\ UNCHANGED <<extractor_vars, parser_vars>>
    /\ UNCHANGED late_vars

NextWalk == Resolve

SpecWalk == InitWalk /\ [][NextWalk]_vars

-----------------------------------------------------------------------------
(* Properties of the resolver *)

\* v is a JSON value: a primitive, an array of JSON values, or an object
\* with distinct keys and JSON values
RECURSIVE IsJson(_)
IsJson(v) ==
    \/ /\ v.t = "prim"
       /\ DOMAIN v = {"t", "v"}
    \/ /\ v.t = "arr"
       /\ DOMAIN v = {"t", "e"}
       /\ \A i \in 1..Len(v.e) : IsJson(v.e[i])
    \/ /\ v.t = "obj"
       /\ DOMAIN v = {"t", "kv"}
       /\ \A i, j \in 1..Len(v.kv) : i # j => v.kv[i].k # v.kv[j].k
       /\ \A i \in 1..Len(v.kv) : IsJson(v.kv[i].v)

\* res is what the broadcast law gives for array arr and remaining keys
BroadcastOf(arr, keys, res) ==
    LET per == [i \in 1..Len(arr.e) |-> walk(arr.e[i], keys)]
    IN  IF \A i \in 1..Len(per) : per[i] = None
          THEN res = None
          ELSE /\ res.t = "arr"
               /\ Len(res.e) = Len(arr.e)
               /\ \A i \in 1..Len(per) : res.e[i] = per[i]

\* C5: broadcast law: at an array with keys remaining the same keys are
\* applied to every element; the result is None when every element result is
\* None (also for the empty array), else the list of element results, in
\* order, of the array's length, interior None kept.  "x.y" on
\* {"x":[{"y":1},{"y":2}]} is [1,2], on {"x":[{"z":1},{"z":2}]} it is None.
C5_BroadcastLaw ==
    pc = "resolved" =>
        LET keys == SplitDots(dot_path)
        IN  /\ data.t = "arr" => BroadcastOf(data, keys, result)
            /\ ( /\ data.t = "obj"
                 /\ Len(keys) > 1
                 /\ Head(keys) \in DictKeys(data)
                 /\ DictGet(data, Head(keys)).t = "arr" )
               => BroadcastOf(DictGet(data, Head(keys)), Tail(keys), result)
            /\ (data = BroadcastSample /\ dot_path = <<"x", ".", "y">>)
               => result = Arr(<<Prim("1"), Prim("2")>>)
            /\ (data = AbsentSample /\ dot_path = <<"x", ".", "y">>)
               => result = None

\* "x.y" on {"x":[{"y":1},{"z":2},{"y":[]}]}: an interior None is kept
C5_Witness ==
    /\ pc = "resolved"
    /\ data = MixedSample
    /\ dot_path = <<"x", ".", "y">>
    /\ result = Arr(<<Prim("1"), None, Arr(<<>>)>>)

\* C6: get_dot_value is total: every call returns a JSON value; a head key
\* missing from an object gives None, a primitive reached while keys remain
\* gives None, a fully consumed path gives the node reached, unchanged.
C6_Total ==
    /\ pc = "start" => IsJson(get_dot_value(data, dot_path))
    /\ pc = "resolved" =>
        LET keys == SplitDots(dot_path)
            child == DictGet(data, keys[1])
        IN  /\ IsJson(result)
            /\ data.t = "prim" => result = None
            /\ (data.t = "obj" /\ keys[1] \notin DictKeys(data))
               => result = None
            /\ (data.t = "obj" /\ keys[1] \in DictKeys(data) /\ Len(keys) = 1)
               => result = child
            /\ ( /\ data.t = "obj"
                 /\ keys[1] \in DictKeys(data)
                 /\ Len(keys) > 1
                 /\ child.t = "prim" )
               => result = None
            /\ ( /\ data.t = "obj"
                 /\ keys[1] \in DictKeys(data)
                 /\ Len(keys) = 2
                 /\ child.t = "obj"
                 /\ keys[2] \in DictKeys(child) )
               => result = DictGet(child, keys[2])

\* a path that runs into a primitive with a key left over
C6_Witness ==
    /\ pc = "resolved"
    /\ data.t = "obj"
    /\ Len(SplitDots(dot_path)) = 2
    /\ SplitDots(dot_path)[1] \in DictKeys(data)
    /\ DictGet(data, SplitDots(dot_path)[1]).t = "prim"
    /\ DictGet(data, SplitDots(dot_path)[1]) # None
    /\ result = None

-----------------------------------------------------------------------------
(* Structure skeleton builder: core/utils/json_utils.py *)

IsDict(n) == n.t = "obj"

IsList(n) == n.t = "arr"

\* the placeholder "" of a primitive
EmptyStr == Prim("")

RECURSIVE deep_merge_full(_, _)

\* the loop of lines 102-106 from the i-th item of b on
RECURSIVE deep_merge_items(_, _, _)
deep_merge_items(out, b, i) ==
    IF i > Len(b.kv) THEN out
    ELSE LET k == b.kv[i].k
             v == b.kv[i].v
         IN  IF k \in DictKeys(out) /\ IsDict(DictGet(out, k)) /\ IsDict(v)
               THEN deep_merge_items(
                        DictSet(out, k, deep_merge_full(DictGet(out, k), v)),
                        b, i + 1)
               ELSE deep_merge_items(DictSet(out, k, v), b, i + 1)

deep_merge_full(a, b) == deep_merge_items(a, b, 1)

merge_nodes(a, b) ==
    IF IsDict(a) /\ IsDict(b) THEN deep_merge_full(a, b)
    ELSE IF IsList(a) /\ IsList(b)
      THEN IF a.e # <<>> /\ IsDict(a.e[1]) /\ b.e # <<>> /\ IsDict(b.e[1])
             THEN Arr(<<deep_merge_full(a.e[1], b.e[1])>>)
           ELSE IF a.e # <<>> /\ IsDict(a.e[1]) THEN a
           ELSE IF b.e # <<>> /\ IsDict(b.e[1]) THEN b
           ELSE Arr(<<>>)
    ELSE IF (IsDict(a) \/ IsList(a)) /\ ~(IsDict(b) \/ IsList(b)) THEN a
    ELSE IF (IsDict(b) \/ IsList(b)) /\ ~(IsDict(a) \/ IsList(a)) THEN b
    ELSE EmptyStr

\* a builder that keeps the raw value of a primitive
primitive_skeleton_raw(value) == value

primitive_skeleton(value) == EmptyStr

\* the loop of lines 123-124 from the i-th object skeleton on
RECURSIVE merge_all(_, _, _)
merge_all(merged, object_skeletons, i) ==
    IF i > Len(object_skeletons) THEN merged
    ELSE merge_all(deep_merge_full(merged, object_skeletons[i]),
                   object_skeletons, i + 1)

RECURSIVE build_skeleton(_)

list_skeleton(items) ==
    IF items = <<>> THEN Arr(<<>>)
    ELSE LET sks == [i \in 1..Len(items) |-> build_skeleton(items[i])]
             object_skeletons == SelectSeq(sks, IsDict)
         IN  IF object_skeletons # <<>>
               THEN Arr(<<merge_all(Obj(<<>>), object_skeletons, 1)>>)
               ELSE Arr(<<>>)

\* the loop of lines 131-137 from the i-th item of d on
RECURSIVE dict_skeleton_items(_, _, _)
dict_skeleton_items(out, d, i) ==
    IF i > Len(d.kv) THEN out
    ELSE LET k  == normalize_key(d.kv[i].k)
             sk == build_skeleton(d.kv[i].v)
         IN  IF k \in DictKeys(out)
               THEN dict_skeleton_items(
                        DictSet(out, k, merge_nodes(DictGet(out, k), sk)),
                        d, i + 1)
               ELSE dict_skeleton_items(DictSet(out, k, sk), d, i + 1)

dict_skeleton(d) == dict_skeleton_items(Obj(<<>>), d, 1)

build_skeleton(node) ==
    IF IsDict(node) THEN dict_skeleton(node)
    ELSE IF IsList(node) THEN list_skeleton(node.e)
    ELSE primitive_skeleton(node)

\* the outcome of json.loads on text that is not valid JSON
InvalidJson == [t |-> "invalid"]

RootKey == <<"_","_","r","o","o","t","_","_">>

ValueKey == <<"_","_","v","a","l","u","e","_","_">>

\* an entry point that returns the skeleton of a top-level array bare
build_skeleton_from_json_bare(parsed) == build_skeleton(parsed)

\* build_skeleton_from_json on text that parses to the value parsed
build_skeleton_from_json(parsed) ==
    IF IsDict(parsed) THEN dict_skeleton(parsed)
    ELSE IF IsList(parsed)
      THEN Obj(<<[k |-> RootKey, v |-> list_skeleton(parsed.e)]>>)
    ELSE Obj(<<[k |-> ValueKey, v |-> primitive_skeleton(parsed)]>>)

-----------------------------------------------------------------------------
(* Inputs of the skeleton builder *)

SkelPrims == {"1"}

\* "a" and "a:" normalise to the same key, "b_1" to "b"
SkelKeys == {<<"a">>, <<"a", ":">>, <<"b", "_", "1">>}

\* {"Response--notes":"ok","Scores_of_3":[1,2,3]}
SampleRecord ==
    Obj(<<[k |-> <<"R","e","s","p","o","n","s","e","-","-","n","o","t","e","s">>,
           v |-> Prim("ok")],
          [k |-> <<"S","c","o","r","e","s","_","o","f","_","3">>,
           v |-> Arr(<<Prim("1"), Prim("2"), Prim("3")>>)]>>)

\* [{"a":1},{"b":2}]
SampleArray ==
    Arr(<<Obj(<<[k |-> <<"a">>, v |-> Prim("1")]>>),
          Obj(<<[k |-> <<"b">>, v |-> Prim("2")]>>)>>)

SkelData ==
    TreesUpTo(SkelPrims, SkelKeys, MaxSkelNodes)
        \cup {SampleRecord, SampleArray, InvalidJson}

InitSkeleton ==
    /\ pc = "start"
    /\ data \in SkelData
    /\ result = Idle
    /\ key = Idle
    /\ k_delim = Idle
    /\ norm1 = Idle
    /\ norm2 = Idle
    /\ dot_path = Idle
    /\ ExtractorIdle
    /\ ParserIdle
    /\ LateIdle

\* build_skeleton_from_json: json.loads raises on invalid text
BuildRaises ==
    /\ pc = "start"
    /\ data = InvalidJson
    /\ pc' = "raised"
    /\ UNCHANGED <<key, k_delim, norm1, norm2, data, dot_path, result>>
    /\ UNCHANGED <<extractor_vars, parser_vars>>
    /\ UNCHANGED late_vars

\* build_skeleton_from_json on valid text
BuildSkeleton ==
    /\ pc = "start"
    /\ data # InvalidJson
    /\ pc' = "built"
    /\ result' = build_skeleton_from_json(data)
    /\ UNCHANGED <<key, k_delim, norm1, norm2, data, dot_path>>
    /\ UNCHANGED <<extractor_vars, parser_vars>>
    /\ UNCHANGED late_vars

NextSkeleton == BuildRaises \/ BuildSkeleton

SpecSkeleton == InitSkeleton /\ [][NextSkeleton]_vars

\* the parts merged in the inputs of SpecMerge
MergeParts == TreesUpTo(SkelPrims, SkelKeys, MaxSkelNodes - 1)

\* an array of two elements, or an object whose two raw keys normalise to
\* the same key
InitMerge ==
    /\ pc = "start"
    /\ \E a, b \in MergeParts :
          \/ data = Arr(<<a, b>>)
          \/ data = Obj(<<[k |-> <<"a">>, v |-> a],
                          [k |-> <<"a", ":">>, v |-> b]>>)
    /\ result = Idle
    /\ key = Idle
    /\ k_delim = Idle
    /\ norm1 = Idle
    /\ norm2 = Idle
    /\ dot_path = Idle
    /\ ExtractorIdle
    /\ ParserIdle
    /\ LateIdle

NextMerge == BuildSkeleton

SpecMerge == InitMerge /\ [][NextMerge]_vars

-----------------------------------------------------------------------------
(* Properties of the skeleton builder *)

\* a value with its dicts as key -> value mappings: Python's == on dicts
\* does not look at the order of the keys
RECURSIVE Canon(_)
Canon(v) ==
    IF v.t = "obj"
      THEN [t |-> "obj", f |-> [k \in DictKeys(v) |-> Canon(DictGet(v, k))]]
    ELSE IF v.t = "arr"
      THEN Arr([i \in 1..Len(v.e) |-> Canon(v.e[i])])
    ELSE v

PyEq(a, b) == Canon(a) = Canon(b)

\* no key anywhere in the tree holds an upper-case letter
RECURSIVE NoUpperKey(_)
NoUpperKey(v) ==
    IF v.t = "obj"
      THEN \A i \in 1..Len(v.kv) :
              /\ \A c \in 1..Len(v.kv[i].k) : v.kv[i].k[c] \notin AsciiUpper
              /\ NoUpperKey(v.kv[i].v)
    ELSE IF v.t = "arr"
      THEN \A i \in 1..Len(v.e) : NoUpperKey(v.e[i])
    ELSE TRUE

\* {"response":"", "scores":[]}
ExpectedSampleSkeleton ==
    Obj(<<[k |-> <<"r","e","s","p","o","n","s","e">>, v |-> EmptyStr],
          [k |-> <<"s","c","o","r","e","s">>, v |-> Arr(<<>>)]>>)

\* C2: every skeleton key is the normalised, lower-cased raw key: the
\* sample record {"Response--notes":"ok","Scores_of_3":[1,2,3]} gives
\* exactly {"response":"", "scores":[]}, and no skeleton key holds an
\* upper-case letter.
C2_SkeletonKeysLowerCased ==
    pc = "built" =>
        /\ data = SampleRecord => PyEq(result, ExpectedSampleSkeleton)
        /\ NoUpperKey(result)

\* a skeleton: leaves are "", an array is empty or holds one object
RECURSIVE WellShaped(_)
WellShaped(v) ==
    \/ /\ v.t = "prim"
       /\ v = EmptyStr
    \/ /\ v.t = "arr"
       /\ Len(v.e) <= 1
       /\ \A i \in 1..Len(v.e) : IsDict(v.e[i]) /\ WellShaped(v.e[i])
    \/ /\ v.t = "obj"
       /\ \A i, j \in 1..Len(v.kv) : i # j => v.kv[i].k # v.kv[j].k
       /\ \A i \in 1..Len(v.kv) : WellShaped(v.kv[i].v)

\* C7: skeleton shape: for every parsed value the builder returns a tree
\* without raw values: every leaf is "", every array is empty or holds
\* exactly one element, an object, after any nesting and duplicate-key merge.
C7_SkeletonShape ==
    /\ (pc = "start" /\ data # InvalidJson)
       => IsJson(build_skeleton_from_json(data))
    /\ pc = "built" => WellShaped(result)

\* two raw keys merged into one whose value is an array of one object
C7_Witness ==
    /\ pc = "built"
    /\ IsDict(data)
    /\ Len(data.kv) = 2
    /\ Len(result.kv) = 1
    /\ IsList(result.kv[1].v)
    /\ Len(result.kv[1].v.e) = 1

\* the permutations of 1..n
Perms(n) == {f \in [1..n -> 1..n] : \A i, j \in 1..n : i # j => f[i] # f[j]}

\* C8: the skeleton of an array does not depend on the order of its
\* elements: every permutation of the array has the same skeleton.
C8_OrderIndependent ==
    (pc = "built" /\ IsList(data)) =>
        \A f \in Perms(Len(data.e)) :
            PyEq(list_skeleton([i \in 1..Len(data.e) |-> data.e[f[i]]]),
                 DictGet(result, RootKey))

\* the key paths of a skeleton, arrays being transparent
RECURSIVE KeyPaths(_)
KeyPaths(v) ==
    IF v.t = "obj"
      THEN UNION {{<<v.kv[i].k>>}
                    \cup {<<v.kv[i].k>> \o q : q \in KeyPaths(v.kv[i].v)} :
                  i \in 1..Len(v.kv)}
    ELSE IF v.t = "arr"
      THEN UNION {KeyPaths(v.e[i]) : i \in 1..Len(v.e)}
    ELSE {}

\* C9: the representative element of an array-of-objects skeleton is the
\* deep union of the element shapes: every key path of the skeleton of an
\* object element is a key path of the merged representative.
C9_DeepUnion ==
    (pc = "built" /\ IsList(data)) =>
        \A i \in 1..Len(data.e) :
            IsDict(build_skeleton(data.e[i])) =>
                KeyPaths(build_skeleton(data.e[i]))
                    \subseteq KeyPaths(DictGet(result, RootKey))

IsStructured(v) == IsDict(v) \/ IsList(v)

\* m is a merge of a and b by the stated rule: two objects are unioned
\* key by key (a collision merged by the same rule), a structured node
\* beats a primitive from either side, two primitives give ""
RECURSIVE MergedByRule(_, _, _)
MergedByRule(a, b, m) ==
    IF IsDict(a) /\ IsDict(b)
      THEN /\ IsDict(m)
           /\ DictKeys(m) = DictKeys(a) \cup DictKeys(b)
           /\ \A k \in DictKeys(a) \ DictKeys(b) :
                 PyEq(DictGet(m, k), DictGet(a, k))
           /\ \A k \in DictKeys(b) \ DictKeys(a) :
                 PyEq(DictGet(m, k), DictGet(b, k))
           /\ \A k \in DictKeys(a) \cap DictKeys(b) :
                 MergedByRule(DictGet(a, k), DictGet(b, k), DictGet(m, k))
    ELSE IF IsStructured(a) /\ ~IsStructured(b) THEN PyEq(m, a)
    ELSE IF IsStructured(b) /\ ~IsStructured(a) THEN PyEq(m, b)
    ELSE IF ~IsStructured(a) /\ ~IsStructured(b) THEN m = EmptyStr
    ELSE TRUE

\* C10: merge rule: two skeleton nodes merged at the same key, for raw
\* keys that normalise identically and for collisions inside the merged
\* objects, never overwrite one another: objects are unioned recursively, a
\* structured node merged with a primitive gives the structured node
\* whichever came first, two primitives give "".
C10_MergeRule ==
    ( /\ pc = "built"
      /\ IsDict(data)
      /\ Len(data.kv) = 2
      /\ normalize_key(data.kv[1].k) = normalize_key(data.kv[2].k) )
    => MergedByRule(build_skeleton(data.kv[1].v),
                    build_skeleton(data.kv[2].v),
                    DictGet(result, normalize_key(data.kv[1].k)))

\* C11: build_skeleton_from_json either raises on text that is not valid
\* JSON, and then returns no skeleton, or returns an object: the skeleton
\* itself for an object root, {"__root__": <array skeleton>} for an array
\* root, {"__value__": ""} for any other root.
C11_EntryPoint ==
    /\ data = InvalidJson => pc \in {"start", "raised"} /\ result = Idle
    /\ pc = "raised" => data = InvalidJson
    /\ pc = "built" =>
          /\ IsDict(result)
          /\ IsDict(data) => result = build_skeleton(data)
          /\ IsList(data) =>
                result = Obj(<<[k |-> RootKey, v |-> build_skeleton(data)]>>)
          /\ ~IsStructured(data) =>
                result = Obj(<<[k |-> ValueKey, v |-> Prim("")]>>)

\* a top-level array of two objects wrapped under "__root__"
C11_Witness ==
    /\ pc = "built"
    /\ data = SampleArray
    /\ DictKeys(result) = {RootKey}
    /\ IsList(DictGet(result, RootKey))
    /\ Len(DictGet(result, RootKey).e) = 1

-----------------------------------------------------------------------------
(* core/llm/schema_extractor.py: the repair parser *)

KwSchema == <<"$","s","c","h","e","m","a">>

KwType == <<"t","y","p","e">>

KwProperties == <<"p","r","o","p","e","r","t","i","e","s">>

KwRequired == <<"r","e","q","u","i","r","e","d">>

KwAdditionalProperties ==
    <<"a","d","d","i","t","i","o","n","a","l",
      "P","r","o","p","e","r","t","i","e","s">>

KwItems == <<"i","t","e","m","s">>

\* the outcome of a call that raises exception class exc
Raise(exc) == [t |-> "raised", exc |-> exc]

IsRaised(v) == v.t = "raised"

\* v == s for a string literal s
IsStr(v, s) == v.t = "prim" /\ v.v = s

\* d.get(k)
DictGetOrNone(d, k) == IF k \in DictKeys(d) THEN DictGet(d, k) ELSE None

looks_like_json_schema(obj) ==
    IF ~IsDict(obj) THEN FALSE
    ELSE IF KwSchema \in DictKeys(obj) THEN TRUE
    ELSE IF /\ IsStr(DictGetOrNone(obj, KwType), "object")
            /\ IsDict(DictGetOrNone(obj, KwProperties)) THEN TRUE
    ELSE IF /\ KwProperties \in DictKeys(obj)
            /\ IsDict(DictGet(obj, KwProperties)) THEN TRUE
    ELSE FALSE

keywords ==
    {KwSchema, KwType, KwProperties, KwRequired, KwAdditionalProperties,
     KwItems}

contains_schema_keywords(obj) ==
    IF ~IsDict(obj) THEN FALSE
    ELSE \E k \in keywords : k \in DictKeys(obj)

\* the loop of lines 248-250 from the i-th entry of t on
RECURSIVE first_non_null(_, _)
first_non_null(t, i) ==
    IF i > Len(t.e) THEN Prim("null")
    ELSE IF ~IsStr(t.e[i], "null") THEN t.e[i]
    ELSE first_non_null(t, i + 1)

choose_type(t) == IF IsList(t) THEN first_non_null(t, 1) ELSE t

RECURSIVE convert(_)

\* the loop of lines 263-264 from the i-th property on
RECURSIVE convert_props(_, _, _)
convert_props(out, props, i) ==
    IF i > Len(props.kv) THEN out
    ELSE LET c == convert(props.kv[i].v)
         IN  IF IsRaised(c) THEN c
             ELSE convert_props(DictSet(out, props.kv[i].k, c), props, i + 1)

\* lines 261-265; props.items() raises when props is not a dict
convert_object(node) ==
    LET props == IF KwProperties \in DictKeys(node)
                   THEN DictGet(node, KwProperties) ELSE Obj(<<>>)
    IN  IF IsDict(props) THEN convert_props(Obj(<<>>), props, 1)
        ELSE Raise("AttributeError")

\* a converter that takes every array for an array of primitives
convert_array_flat(node) == Arr(<<>>)

\* lines 267-277
convert_array(node) ==
    LET items == DictGetOrNone(node, KwItems)
    IN  IF IsDict(items)
          THEN LET child == convert(items)
               IN  IF IsRaised(child) THEN child
                   ELSE IF IsDict(child) THEN Arr(<<child>>)
                   ELSE Arr(<<>>)
          ELSE Arr(<<>>)

convert(node) ==
    IF ~IsDict(node) THEN Obj(<<>>)
    ELSE LET t == choose_type(DictGetOrNone(node, KwType))
         IN  IF \/ IsStr(t, "object")
                \/ /\ KwProperties \in DictKeys(node)
                   /\ IsDict(DictGet(node, KwProperties))
               THEN convert_object(node)
             ELSE IF IsStr(t, "array") THEN convert_array(node)
             ELSE IF IsStr(t, "string") THEN Prim("")
             ELSE IF IsStr(t, "number") \/ IsStr(t, "integer") THEN Prim("0")
             ELSE IF IsStr(t, "boolean") THEN Prim("False")
             ELSE IF t = None
               THEN IF KwProperties \in DictKeys(node)
                      THEN convert(Obj(<<[k |-> KwType, v |-> Prim("object")],
                                         [k |-> KwProperties,
                                          v |-> DictGet(node, KwProperties)]>>))
                    ELSE IF KwItems \in DictKeys(node)
                      THEN convert(Obj(<<[k |-> KwType, v |-> Prim("array")],
                                         [k |-> KwItems,
                                          v |-> DictGet(node, KwItems)]>>))
                    ELSE Obj(<<>>)
             ELSE Prim("")

jsonschema_to_skeleton(schema_obj) ==
    LET res == convert(schema_obj)
    IN  IF IsRaised(res) THEN res
        ELSE IF ~IsDict(res) THEN Obj(<<>>)
        ELSE res

\* parse_or_convert_to_skeleton on raw text that lines 142-146 parse to
\* the value parsed (InvalidJson when json.loads raises twice)
parse_or_convert_to_skeleton(parsed) ==
    IF parsed = InvalidJson THEN Raise("JSONDecodeError")
    ELSE IF ~IsDict(parsed) THEN Raise("ValueError")
    ELSE IF looks_like_json_schema(parsed)
      THEN LET skeleton == jsonschema_to_skeleton(parsed)
           IN  IF IsRaised(skeleton) THEN skeleton
               ELSE IF ~IsDict(skeleton) THEN Raise("ValueError")
               ELSE IF looks_like_json_schema(skeleton)
                 THEN Raise("ValueError")
               ELSE skeleton
    ELSE IF contains_schema_keywords(parsed) THEN Raise("ValueError")
    ELSE parsed

-----------------------------------------------------------------------------
(* Inputs of the repair parser: what the generator's text parses to *)

\* the values of a "type" entry: type names, JSON null, union types
TypeValues ==
    {Prim("object"), Prim("array"), Prim("string"), Prim("number"),
     Prim("integer"), Prim("boolean"), Prim("null"), Prim("date"), None,
     Arr(<<Prim("null"), Prim("integer")>>), Arr(<<Prim("null")>>),
     Arr(<<>>)}

\* a node without "type", or with one
TypeHeads == {<<>>} \cup {<<[k |-> KwType, v |-> ty]>> : ty \in TypeValues}

\* the "type" entries of the nodes that hold properties or items
NestingHeads ==
    {<<>>, <<[k |-> KwType, v |-> Prim("object")]>>,
     <<[k |-> KwType, v |-> Prim("array")]>>,
     <<[k |-> KwType, v |-> Prim("string")]>>}

\* property names: a plain one and two reserved words
PropKeys == {<<"i","d">>, KwType, KwProperties}

\* schema nodes without properties and items, and two nodes that are no
\* objects
SchemaLeaves == {Obj(h) : h \in TypeHeads} \cup {Prim("string"), Arr(<<>>)}

\* schema nodes nested at most d deep
RECURSIVE SchemaNodes(_)
SchemaNodes(d) ==
    IF d = 0 THEN SchemaLeaves
    ELSE LET sub == SchemaNodes(d - 1)
         IN  sub
             \cup {Obj(h \o <<[k |-> KwProperties,
                              v |-> Obj(<<[k |-> pk, v |-> c]>>)]>>) :
                     h \in NestingHeads, pk \in PropKeys, c \in sub}
             \cup {Obj(h \o <<[k |-> KwProperties, v |-> np]>>) :
                     h \in NestingHeads, np \in {Prim("x"), Arr(<<>>)}}
             \cup {Obj(h \o <<[k |-> KwItems, v |-> c]>>) :
                     h \in NestingHeads, c \in sub}

\* {"type":"object","properties":{"id":{"type":"string"},
\*  "tags":{"type":"array","items":{"type":"string"}}}}
SampleSchema ==
    Obj(<<[k |-> KwType, v |-> Prim("object")],
          [k |-> KwProperties,
           v |-> Obj(<<[k |-> <<"i","d">>,
                        v |-> Obj(<<[k |-> KwType, v |-> Prim("string")]>>)],
                       [k |-> <<"t","a","g","s">>,
                        v |-> Obj(<<[k |-> KwType, v |-> Prim("array")],
                                    [k |-> KwItems,
                                     v |-> Obj(<<[k |-> KwType,
                                                  v |-> Prim("string")]>>)]
                                  >>)]>>)]>>)

PassPrims == {"", "1"}

PassKeys == {<<"a">>, KwType, KwItems}

\* no object anywhere in v
RECURSIVE HoldsNoObject(_)
HoldsNoObject(v) ==
    /\ ~IsDict(v)
    /\ IsList(v) => \A i \in 1..Len(v.e) : HoldsNoObject(v.e[i])

\* the text of an array that holds an object parses to that object's span
\* (line 143 cuts the text from its first "{" to its last "}")
InitRepair ==
    /\ pc = "start"
    /\ \/ data \in SchemaNodes(MaxSchemaDepth)
       \/ \E n \in SchemaNodes(MaxSchemaDepth) :
             /\ IsDict(n)
             /\ data = Obj(<<[k |-> KwSchema, v |-> Prim("x")]>> \o n.kv)
       \/ data \in TreesUpTo(PassPrims, PassKeys, MaxPassNodes)
       \/ data \in {SampleSchema, InvalidJson}
    /\ IsList(data) => HoldsNoObject(data)
    /\ result = Idle
    /\ key = Idle
    /\ k_delim = Idle
    /\ norm1 = Idle
    /\ norm2 = Idle
    /\ dot_path = Idle
    /\ ExtractorIdle
    /\ ParserIdle
    /\ LateIdle

\* _parse_or_convert_to_skeleton returns a skeleton
RepairReturns ==
    /\ pc = "start"
    /\ ~IsRaised(parse_or_convert_to_skeleton(data))
    /\ pc' = "returned"
    /\ result' = parse_or_convert_to_skeleton(data)
    /\ UNCHANGED <<key, k_delim, norm1, norm2, data, dot_path>>
    /\ UNCHANGED <<extractor_vars, parser_vars>>
    /\ UNCHANGED late_vars

\* _parse_or_convert_to_skeleton raises
RepairRaises ==
    /\ pc = "start"
    /\ IsRaised(parse_or_convert_to_skeleton(data))
    /\ pc' = "raised"
    /\ error' = parse_or_convert_to_skeleton(data).exc
    /\ UNCHANGED <<key, k_delim, norm1, norm2, data, dot_path, result>>
    /\ UNCHANGED <<sample_log_text, prompt, calls, attempts, last_raw>>
    /\ UNCHANGED parser_vars
    /\ UNCHANGED late_vars

NextRepair == RepairReturns \/ RepairRaises

SpecRepair == InitRepair /\ [][NextRepair]_vars

-----------------------------------------------------------------------------
(* core/llm/schema_extractor.py: extract_schema and the text generator *)

\* P1_PROMPT_TEMPLATE up to "{sample}" and after it, each kept as one
\* element of the prompt
TemplateHead == "P1_PROMPT_TEMPLATE[:648]"

TemplateTail == "P1_PROMPT_TEMPLATE[656:]"

TemplateHeadChars == 648

TemplateTailChars == 50

build_prompt(sample) == <<TemplateHead>> \o Strip(sample) \o <<TemplateTail>>

\* len(prompt)
prompt_len(p) == TemplateHeadChars + (Len(p) - 2) + TemplateTailChars

\* a loop with a third attempt
AttemptNumbersThree == <<1, 2, 3>>

\* the attempt numbers of the loop of line 76
AttemptNumbers == <<1, 2>>

\* the generator raises (OllamaError) instead of returning text
GeneratorError == [t |-> "raised", exc |-> "OllamaError"]

\* raw texts the generator returns, each with the value lines 142-146 parse
\* it to
Replies ==
    { [text |-> <<"{", "}">>, parsed |-> Obj(<<>>)],
      [text |-> <<"[", "]">>, parsed |-> Arr(<<>>)],
      [text |-> <<"n", "o">>, parsed |-> InvalidJson],
      [text |-> <<>>, parsed |-> InvalidJson],
      [text |-> <<"{", "\"", "a", "\"", ":", "\"", "\"", "}">>,
       parsed |-> Obj(<<[k |-> <<"a">>, v |-> Prim("")]>>)],
      [text |-> <<"{", "\"", "t", "y", "p", "e", "\"", ":", "1", "}">>,
       parsed |-> Obj(<<[k |-> KwType, v |-> Prim("1")]>>)],
      [text |-> <<"{", "\"", "p", "r", "o", "p", "e", "r", "t", "i", "e", "s", "\"", ":", "{", "}", "}">>,
       parsed |-> Obj(<<[k |-> KwProperties, v |-> Obj(<<>>)]>>)] }

RawTexts == {r.text : r \in Replies}

\* the generator returns the text raw
Returned(raw) == [t |-> "text", raw |-> raw]

\* lines 142-146 on a raw text
parse_raw(raw) == (CHOOSE r \in Replies : r.text = raw).parsed

\* the diagnostics with the two sizes swapped
diagnostics_swapped(p, raw, n) ==
    [prompt_chars |-> Len(raw), raw_output_chars |-> prompt_len(p),
     attempts |-> n]

\* ExtractionDiagnostics as built on lines 88-92
diagnostics(p, raw, n) ==
    [prompt_chars |-> prompt_len(p), raw_output_chars |-> Len(raw),
     attempts |-> n]

SchemaExtractionError(raw, diag) ==
    [type |-> "SchemaExtractionError", raw_output |-> raw,
     diagnostics |-> diag]

SampleLogs ==
    StringsUpTo({"{", "}", " "}, 2) \cup {<<" ", "{", "\"", "a", "\"", ":", "1", "}", "\n">>}

InitExtract ==
    /\ pc = "start"
    /\ sample_log_text \in SampleLogs
    /\ prompt = Idle
    /\ calls = <<>>
    /\ attempts = Idle
    /\ last_raw = Idle
    /\ error = Idle
    /\ result = Idle
    /\ key = Idle
    /\ k_delim = Idle
    /\ norm1 = Idle
    /\ norm2 = Idle
    /\ data = Idle
    /\ dot_path = Idle
    /\ ParserIdle
    /\ LateIdle

\* lines 71-75: the prompt is built once, before the loop
BuildPrompt ==
    /\ pc = "start"
    /\ prompt' = build_prompt(sample_log_text)
    /\ attempts' = 0
    /\ last_raw' = <<>>
    /\ pc' = "loop"
    /\ UNCHANGED <<key, k_delim, norm1, norm2, data, dot_path, result>>
    /\ UNCHANGED <<sample_log_text, calls, error, parser_vars>>
    /\ UNCHANGED late_vars

\* one more iteration of the loop is due
MoreAttempts == attempts < Len(AttemptNumbers)

\* an attempt whose generator call raises: line 79 raises, line 85 absorbs
AttemptGeneratorFails ==
    /\ pc = "loop"
    /\ MoreAttempts
    /\ attempts' = AttemptNumbers[attempts + 1]
    /\ calls' = Append(calls, [prompt |-> prompt, reply |-> GeneratorError])
    /\ UNCHANGED <<key, k_delim, norm1, norm2, data, dot_path, result>>
    /\ UNCHANGED <<pc, sample_log_text, prompt, last_raw, error, parser_vars>>
    /\ UNCHANGED late_vars

\* an attempt whose text cannot be recovered: line 82 raises, line 85
\* absorbs
AttemptUnrecoverable ==
    /\ pc = "loop"
    /\ MoreAttempts
    /\ \E raw \in RawTexts :
          /\ IsRaised(parse_or_convert_to_skeleton(parse_raw(raw)))
          /\ calls' = Append(calls, [prompt |-> prompt, reply |-> Returned(raw)])
          /\ last_raw' = raw
    /\ attempts' = AttemptNumbers[attempts + 1]
    /\ UNCHANGED <<key, k_delim, norm1, norm2, data, dot_path, result>>
    /\ UNCHANGED <<pc, sample_log_text, prompt, error, parser_vars>>
    /\ UNCHANGED late_vars

\* an attempt that succeeds: line 84 returns the skeleton
AttemptSucceeds ==
    /\ pc = "loop"
    /\ MoreAttempts
    /\ \E raw \in RawTexts :
          /\ ~IsRaised(parse_or_convert_to_skeleton(parse_raw(raw)))
          /\ calls' = Append(calls, [prompt |-> prompt, reply |-> Returned(raw)])
          /\ last_raw' = raw
          /\ result' = parse_or_convert_to_skeleton(parse_raw(raw))
    /\ attempts' = AttemptNumbers[attempts + 1]
    /\ pc' = "returned"
    /\ UNCHANGED <<key, k_delim, norm1, norm2, data, dot_path>>
    /\ UNCHANGED <<sample_log_text, prompt, error, parser_vars>>
    /\ UNCHANGED late_vars

\* lines 88-97: the loop is over without a skeleton
RaiseExtractionError ==
    /\ pc = "loop"
    /\ ~MoreAttempts
    /\ error' = SchemaExtractionError(last_raw,
                                      diagnostics(prompt, last_raw, attempts))
    /\ pc' = "raised"
    /\ UNCHANGED <<key, k_delim, norm1, norm2, data, dot_path, result>>
    /\ UNCHANGED <<sample_log_text, prompt, calls, attempts, last_raw>>
    /\ UNCHANGED parser_vars
    /\ UNCHANGED late_vars

NextExtract ==
    \/ BuildPrompt
    \/ AttemptGeneratorFails
    \/ AttemptUnrecoverable
    \/ AttemptSucceeds
    \/ RaiseExtractionError

SpecExtract == InitExtract /\ [][NextExtract]_vars

-----------------------------------------------------------------------------
(* Properties of the repair parser *)

\* the type a node declares: a union type stands for its first entry that
\* is not "null"
EffectiveType(node) ==
    LET ty == DictGetOrNone(node, KwType)
    IN  IF IsList(ty)
          THEN LET named == {i \in 1..Len(ty.e) : ~IsStr(ty.e[i], "null")}
               IN  IF named = {} THEN Prim("null") ELSE ty.e[SetMin(named)]
          ELSE ty

\* an object node: typed "object", or with object-valued properties, or
\* untyped with properties
RuleObject(node) ==
    \/ IsStr(EffectiveType(node), "object")
    \/ IsDict(DictGetOrNone(node, KwProperties))
    \/ EffectiveType(node) = None /\ KwProperties \in DictKeys(node)

\* an array node: typed "array", or untyped with items
RuleArray(node) ==
    /\ ~RuleObject(node)
    /\ \/ IsStr(EffectiveType(node), "array")
       \/ EffectiveType(node) = None /\ KwItems \in DictKeys(node)

\* the conversion rules as stated: blank is what a node becomes that is no
\* object, or is untyped without properties and items
RECURSIVE ByRule(_, _)
ByRule(node, blank) ==
    IF ~IsDict(node) THEN blank
    ELSE LET ty    == EffectiveType(node)
             props == DictGetOrNone(node, KwProperties)
             items == DictGetOrNone(node, KwItems)
         IN  IF RuleObject(node)
               THEN IF IsDict(props)
                      THEN Obj([i \in 1..Len(props.kv) |->
                                  [k |-> props.kv[i].k,
                                   v |-> ByRule(props.kv[i].v, blank)]])
                      ELSE Obj(<<>>)
             ELSE IF RuleArray(node)
               THEN IF IsDict(items) /\ IsDict(ByRule(items, blank))
                      THEN Arr(<<ByRule(items, blank)>>)
                      ELSE Arr(<<>>)
             ELSE IF IsStr(ty, "string") THEN Prim("")
             ELSE IF IsStr(ty, "number") \/ IsStr(ty, "integer") THEN Prim("0")
             ELSE IF IsStr(ty, "boolean") THEN Prim("False")
             ELSE IF ty = None THEN blank
             ELSE Prim("")

\* the result for a schema-shaped root: its declared properties, converted
RootByRule(root, blank) ==
    IF IsDict(ByRule(root, blank)) THEN ByRule(root, blank) ELSE Obj(<<>>)

\* the conversion meets an object node whose properties entry is no object
RECURSIVE MeetsBadProperties(_)
MeetsBadProperties(node) ==
    /\ IsDict(node)
    /\ LET props == DictGetOrNone(node, KwProperties)
           items == DictGetOrNone(node, KwItems)
       IN  IF RuleObject(node)
             THEN IF IsDict(props)
                    THEN \E i \in 1..Len(props.kv) :
                            MeetsBadProperties(props.kv[i].v)
                    ELSE KwProperties \in DictKeys(node)
           ELSE IF RuleArray(node) THEN MeetsBadProperties(items)
           ELSE FALSE

\* {"id":"", "tags":[]}
ExpectedSampleConversion ==
    Obj(<<[k |-> <<"i","d">>, v |-> Prim("")],
          [k |-> <<"t","a","g","s">>, v |-> Arr(<<>>)]>>)

\* C14 as stated: a schema-shaped root converts property by property: an
\* object/properties node to an object, an array node to a one-element list
\* when its converted items is an object and to [] otherwise, string to "",
\* number/integer to 0, boolean to false, a union type as its first entry
\* that is not "null", an untyped node by its properties then its items,
\* anything unrecognized to "".
C14_ConversionRules ==
    /\ (pc = "returned" /\ looks_like_json_schema(data))
       => PyEq(result, RootByRule(data, Prim("")))
    /\ (pc = "returned" /\ data = SampleSchema)
       => result = ExpectedSampleConversion

\* C14 amended: as C14, but a node that is no object, and an untyped node
\* without properties and items, convert to {} (an unknown type name still
\* converts to ""), and the conversion raises when it meets an object node
\* whose properties entry is no object.
C14_ConversionRulesAmended ==
    /\ (pc = "start" /\ looks_like_json_schema(data))
       => LET out == jsonschema_to_skeleton(data)
          IN  IF MeetsBadProperties(data)
                THEN IsRaised(out) /\ out.exc = "AttributeError"
                ELSE IsDict(out) /\ PyEq(out, RootByRule(data, Obj(<<>>)))
    /\ (pc = "returned" /\ looks_like_json_schema(data))
       => PyEq(result, RootByRule(data, Obj(<<>>)))
    /\ (pc = "returned" /\ data = SampleSchema)
       => result = ExpectedSampleConversion

\* the sample schema of the specification converted
C14_Witness ==
    /\ pc = "returned"
    /\ data = SampleSchema
    /\ result = ExpectedSampleConversion

\* every array in v is empty or holds exactly one element, an object
RECURSIVE ArraysHoldOneObject(_)
ArraysHoldOneObject(v) ==
    IF IsList(v)
      THEN /\ Len(v.e) <= 1
           /\ \A i \in 1..Len(v.e) : IsDict(v.e[i]) /\ ArraysHoldOneObject(v.e[i])
    ELSE IF IsDict(v)
      THEN \A i \in 1..Len(v.kv) : ArraysHoldOneObject(v.kv[i].v)
    ELSE TRUE

\* C15: every skeleton the repair parser returns, converted from a
\* JSON-Schema document or passed through, has the shape the skeleton
\* builder produces: an object in which every array is empty or holds
\* exactly one object element.
C15_ReturnedSkeletonShape ==
    pc = "returned" => IsDict(result) /\ ArraysHoldOneObject(result)

\* C16: no schema leakage: no skeleton the repair parser returns, converted
\* or passed through, has a top-level key among $schema, type, properties,
\* required, additionalProperties, items.
C16_NoSchemaLeak ==
    pc = "returned" => DictKeys(result) \cap keywords = {}

-----------------------------------------------------------------------------
(* Properties of extract_schema *)

\* the i-th invocation of the generator belongs to a failed attempt
AttemptFailed(i) ==
    \/ IsRaised(calls[i].reply)
    \/ /\ ~IsRaised(calls[i].reply)
       /\ IsRaised(parse_or_convert_to_skeleton(
                       parse_raw(calls[i].reply.raw)))

\* C12: bounded attempts: one call of extract_schema invokes the generator
\* at most twice, each time with the identical prompt; the second
\* invocation happens only if the first attempt failed, and on the first
\* successful attempt the skeleton is returned at once, with no further
\* invocation.
C12_BoundedAttempts ==
    /\ Len(calls) <= 2
    /\ \A i \in 1..Len(calls) :
          calls[i].prompt = build_prompt(sample_log_text)
    /\ \A i \in 1..Len(calls) - 1 : AttemptFailed(i)
    /\ (calls # <<>> /\ ~AttemptFailed(Len(calls)))
       => /\ pc = "returned"
          /\ result = parse_or_convert_to_skeleton(
                          parse_raw(calls[Len(calls)].reply.raw))
    /\ pc = "returned" => calls # <<>> /\ ~AttemptFailed(Len(calls))

\* a skeleton returned by the second attempt after a failed first one
C12_Witness ==
    /\ pc = "returned"
    /\ Len(calls) = 2
    /\ IsRaised(calls[1].reply)
    /\ IsDict(result)

\* the raw text the generator returned in the i-th attempt, "" when it
\* raised
RawTextOf(i) ==
    IF IsRaised(calls[i].reply) THEN <<>> ELSE calls[i].reply.raw

\* the diagnostics are those of two attempts and of the prompt sent
RaisedWithDiagnostics ==
    /\ error.type = "SchemaExtractionError"
    /\ Len(calls) = 2
    /\ AttemptFailed(1)
    /\ AttemptFailed(2)
    /\ error.diagnostics.attempts = 2
    /\ error.diagnostics.prompt_chars
          = 648 + Len(Strip(sample_log_text)) + 50
    /\ error.diagnostics.raw_output_chars = Len(error.raw_output)

\* C13 as stated: when both attempts fail, extract_schema raises
\* SchemaExtractionError and nothing else; the error carries the raw text
\* of the final attempt and diagnostics with attempts = 2, prompt_chars =
\* length of the prompt sent, raw_output_chars = length of the carried text.
C13_ErrorCarriesFinalRaw ==
    /\ (pc = "loop" /\ Len(calls) = 2) => error = Idle
    /\ pc = "raised"
       => /\ RaisedWithDiagnostics
          /\ error.raw_output = RawTextOf(2)

\* the latest attempt up to the i-th in which the generator returned text
RECURSIVE LastReturnedText(_)
LastReturnedText(i) ==
    IF i = 0 THEN <<>>
    ELSE IF ~IsRaised(calls[i].reply) THEN calls[i].reply.raw
    ELSE LastReturnedText(i - 1)

\* C13 amended: as C13, but the error carries the raw text of the last
\* attempt in which the generator returned text, and the empty string when
\* it returned none.
C13_ErrorCarriesLastRaw ==
    /\ (pc = "loop" /\ Len(calls) = 2) => error = Idle
    /\ pc = "raised"
       => /\ RaisedWithDiagnostics
          /\ error.raw_output = LastReturnedText(2)

\* both attempts returned text that cannot be recovered
C13_Witness ==
    /\ pc = "raised"
    /\ ~IsRaised(calls[1].reply)
    /\ ~IsRaised(calls[2].reply)
    /\ calls[1].reply # calls[2].reply
    /\ error.raw_output = calls[2].reply.raw
    /\ error.diagnostics.raw_output_chars = 2

-----------------------------------------------------------------------------
(* core/schema/parsers/default_parser.py *)

\* Python's truth value of v is false
Falsy(v) ==
    \/ v.t = "prim" /\ v.v \in {"None", "", "0", "False"}
    \/ v.t = "arr" /\ v.e = <<>>
    \/ v.t = "obj" /\ v.kv = <<>>

\* a traversal that stops at the root
schema_walk_stays(node, parts) == node

\* the loop of lines 61-83 from node on, parts being the keys still to take
RECURSIVE schema_walk(_, _)
schema_walk(node, parts) ==
    IF parts = <<>> THEN node
    ELSE IF IsDict(node)
      THEN IF Head(parts) \in DictKeys(node)
             THEN schema_walk(DictGet(node, Head(parts)), Tail(parts))
             ELSE None
    ELSE IF IsList(node)
      THEN IF node.e # <<>> /\ IsDict(node.e[1])
             THEN IF Head(parts) \in DictKeys(node.e[1])
                    THEN schema_walk(DictGet(node.e[1], Head(parts)),
                                     Tail(parts))
                    ELSE None
             ELSE node
    ELSE None

schema_node_for_path(skeleton, path) ==
    IF Falsy(skeleton) THEN None
    ELSE schema_walk(skeleton, SplitDots(path))

\* a default that hands the skeleton node back
default_is_node(node) == node

default_for_schema_node(node) ==
    IF IsDict(node) THEN Obj(<<>>)
    ELSE IF IsList(node) THEN Arr(<<>>)
    ELSE Prim("")

\* a parser that leaves the absence marker in place
resolve_missing_none(skeleton, path) == None

\* lines 38-39: the default for a path missing in the record
resolve_missing(skeleton, path) ==
    default_for_schema_node(schema_node_for_path(skeleton, path))

\* a test that takes every falsy value for a missing one
is_missing_falsy(val) == Falsy(val)

\* line 36: val is None
is_missing(val) == val = None

\* DefaultParser.extract_field: no override
extract_field(d, field) == None

\* the loop of lines 27-41 from the i-th field on
RECURSIVE extract_fields(_, _, _, _, _)
extract_fields(res, skeleton, d, fs, i) ==
    IF i > Len(fs) THEN res
    ELSE LET f          == fs[i]
             overridden == extract_field(d, f)
             val        == get_dot_value(d, f)
         IN  IF overridden # None
               THEN extract_fields(DictSet(res, f, overridden),
                                   skeleton, d, fs, i + 1)
             ELSE IF is_missing(val)
               THEN extract_fields(DictSet(res, f, resolve_missing(skeleton, f)),
                                   skeleton, d, fs, i + 1)
             ELSE extract_fields(DictSet(res, f, val), skeleton, d, fs, i + 1)

\* DefaultParser.extract with the skeleton attached by set_schema (None
\* when set_schema was never called)
extract(skeleton, d, fs) == extract_fields(Obj(<<>>), skeleton, d, fs, 1)

-----------------------------------------------------------------------------
(* Inputs of the default parser *)

\* null and the falsy primitives 0, "" and false, and a truthy one
ParserPrims == {"None", "0", "", "False", "1"}

\* {"x":[{"y":""}],"y":{"x":[]}}
NestedSkeleton ==
    Obj(<<[k |-> X, v |-> Arr(<<Obj(<<[k |-> Y, v |-> Prim("")]>>)>>)],
          [k |-> Y, v |-> Obj(<<[k |-> X, v |-> Arr(<<>>)]>>)]>>)

\* {"x":{"y":{"x":""}}}
DeepSkeleton ==
    Obj(<<[k |-> X,
           v |-> Obj(<<[k |-> Y, v |-> Obj(<<[k |-> X, v |-> Prim("")]>>)]>>)
          ]>>)

\* {"x":0,"y":[false,"",[]]}
FalsyRecord ==
    Obj(<<[k |-> X, v |-> Prim("0")],
          [k |-> Y, v |-> Arr(<<Prim("False"), Prim(""), Arr(<<>>)>>)]>>)

\* the skeleton attached by set_schema; None when it was never called
SampleSkeletons == {None, NestedSkeleton, DeepSkeleton}

ParserSkeletons ==
    {sk \in TreesUpTo({""}, WalkKeys, MaxParserNodes) : IsDict(sk)}
        \cup SampleSkeletons

SampleRecords == {Obj(<<>>), BroadcastSample, AbsentSample, FalsyRecord}

ParserRecords ==
    TreesUpTo(ParserPrims, WalkKeys, MaxParserNodes) \cup SampleRecords

ParserPaths == StringsUpTo(PathAlphabet, MaxPathLen)

\* "x", "y", "x.y", "y.x", "x.y.x"
SamplePaths ==
    {<<"x">>, <<"y">>, <<"x", ".", "y">>, <<"y", ".", "x">>,
     <<"x", ".", "y", ".", "x">>}

\* one call of extract on a parser built by __init__ and, unless the
\* skeleton is None, given its skeleton by set_schema
InitParser ==
    /\ pc = "start"
    /\ \/ /\ schema_skeleton \in ParserSkeletons
          /\ data \in SampleRecords
          /\ \E f \in ParserPaths \cup SamplePaths : fields = <<f>>
       \/ /\ schema_skeleton \in SampleSkeletons
          /\ data \in ParserRecords
          /\ \E f \in ParserPaths \cup SamplePaths : fields = <<f>>
       \/ /\ schema_skeleton \in SampleSkeletons
          /\ data \in SampleRecords
          /\ \/ fields = <<>>
             \/ \E f, g \in SamplePaths : fields = <<f, g>>
    /\ result = Idle
    /\ key = Idle
    /\ k_delim = Idle
    /\ norm1 = Idle
    /\ norm2 = Idle
    /\ dot_path = Idle
    /\ ExtractorIdle
    /\ LateIdle

\* DefaultParser.extract(data, fields)
Extract ==
    /\ pc = "start"
    /\ pc' = "extracted"
    /\ result' = extract(schema_skeleton, data, fields)
    /\ UNCHANGED <<key, k_delim, norm1, norm2, data, dot_path>>
    /\ UNCHANGED <<extractor_vars, parser_vars>>
    /\ UNCHANGED late_vars

NextParser == Extract

SpecParser == InitParser /\ [][NextParser]_vars

-----------------------------------------------------------------------------
(* Properties of the default parser *)

\* the i-th requested path is absent in the record
AbsentInRecord(i) == get_dot_value(data, fields[i]) = None

\* where the path segs ends in a skeleton: at a node ("node"), at a missing
\* segment ("missing"), below a primitive ("primitive"), or below an array
\* whose first element is no object ("array"); through an array of objects
\* the path goes on in the representative element
RECURSIVE PathEnd(_, _)
PathEnd(node, segs) ==
    IF segs = <<>> THEN [at |-> "node", node |-> node]
    ELSE IF IsDict(node)
      THEN IF Head(segs) \in DictKeys(node)
             THEN PathEnd(DictGet(node, Head(segs)), Tail(segs))
             ELSE [at |-> "missing"]
    ELSE IF IsList(node)
      THEN IF node.e # <<>> /\ IsDict(node.e[1])
             THEN PathEnd(node.e[1], segs)
             ELSE [at |-> "array"]
    ELSE [at |-> "primitive"]

\* where the i-th requested path ends in the attached skeleton
EndOfField(i) == PathEnd(schema_skeleton, SplitDots(fields[i]))

\* the placeholder of the type of a skeleton node
PlaceholderOf(node) ==
    IF IsDict(node) THEN Obj(<<>>)
    ELSE IF IsList(node) THEN Arr(<<>>)
    ELSE Prim("")

\* C17: schema-default round trip: for a skeleton attached with set_schema
\* and a path present in it (through an array, in its representative
\* element), a path absent in the record resolves to the placeholder of
\* the type of the skeleton's node: {} for an object, [] for an array, ""
\* for a primitive placeholder.
C17_SchemaDefaultRoundTrip ==
    pc = "extracted" =>
        \A i \in 1..Len(fields) :
            ( /\ schema_skeleton # None
              /\ EndOfField(i).at = "node"
              /\ AbsentInRecord(i) )
            => DictGet(result, fields[i]) = PlaceholderOf(EndOfField(i).node)

\* "x" is absent in the record and an array of objects in the skeleton
C17_Witness ==
    /\ pc = "extracted"
    /\ schema_skeleton = NestedSkeleton
    /\ data = Obj(<<>>)
    /\ fields = <<X>>
    /\ DictGet(result, X) = Arr(<<>>)

\* C18: extract never fails and never leaves absence as a sentinel: for
\* every record, list of paths and attached or missing skeleton it returns
\* a mapping, and no value of the mapping is None.
C18_NeverNone ==
    /\ pc = "start" => IsJson(extract(schema_skeleton, data, fields))
    /\ pc = "extracted"
       => /\ IsDict(result)
          /\ \A i \in 1..Len(result.kv) : result.kv[i].v # None

\* no skeleton attached, the path absent in the record
C18_Witness ==
    /\ pc = "extracted"
    /\ schema_skeleton = None
    /\ fields # <<>>
    /\ AbsentInRecord(1)
    /\ DictGet(result, fields[1]) = Prim("")

\* C19 as stated: a path absent in the record for which the attached
\* skeleton has no node (a segment is missing, or the path continues below
\* a primitive or below an array without an object representative) resolves
\* to "".
C19_NoNodeGivesEmptyString ==
    pc = "extracted" =>
        \A i \in 1..Len(fields) :
            ( /\ schema_skeleton # None
              /\ EndOfField(i).at \in {"missing", "primitive", "array"}
              /\ AbsentInRecord(i) )
            => DictGet(result, fields[i]) = Prim("")

\* C19 amended: a path absent in the record resolves to "" when a segment
\* is missing in the attached skeleton or the path continues below a
\* primitive, and to [] when the path continues below an array whose first
\* element is no object.
C19_NoNodeDefaults ==
    pc = "extracted" =>
        \A i \in 1..Len(fields) :
            (schema_skeleton # None /\ AbsentInRecord(i))
            => /\ EndOfField(i).at \in {"missing", "primitive"}
                  => DictGet(result, fields[i]) = Prim("")
               /\ EndOfField(i).at = "array"
                  => DictGet(result, fields[i]) = Arr(<<>>)

\* "y.x.y" continues below the empty array at "y.x", "x.y.x" continues
\* below the primitive at "x.y"
C19_Witness ==
    /\ pc = "extracted"
    /\ schema_skeleton = NestedSkeleton
    /\ data = Obj(<<>>)
    /\ fields = <<<<"x", ".", "y", ".", "x">>>>
    /\ EndOfField(1).at = "primitive"
    /\ DictGet(result, fields[1]) = Prim("")

\* the mapping holds the requested paths as keys and every value the
\* resolver found
KeyedByRequest ==
    pc = "extracted" =>
        /\ DictKeys(result) = {fields[i] : i \in 1..Len(fields)}
        /\ \A i \in 1..Len(fields) :
              ~AbsentInRecord(i)
              => DictGet(result, fields[i]) = get_dot_value(data, fields[i])

\* C20: extract returns a mapping keyed by exactly the requested path
\* strings, an entry being the value the resolver found, unmodified, also
\* when it is falsy (0, false, "", []) or a broadcast list; the record and
\* the attached skeleton are left unchanged.
C20_KeysValuesFrame ==
    /\ []KeyedByRequest
    /\ [][data' = data /\ schema_skeleton' = schema_skeleton]_vars

\* the falsy values 0 and [false, "", []] returned as found
C20_Witness ==
    /\ pc = "extracted"
    /\ data = FalsyRecord
    /\ fields = <<X, Y>>
    /\ DictGet(result, X) = Prim("0")
    /\ DictGet(result, Y) = Arr(<<Prim("False"), Prim(""), Arr(<<>>)>>)

-----------------------------------------------------------------------------
(* The parser factory: core/schema/parsers/factory.py *)

MaxNameLen == 3

Alnum == AsciiLetter \cup Digits

\* re.sub(r"[^...]+", rep, s): every maximal run of characters outside
\* `keep` becomes rep
RECURSIVE sub_runs(_, _, _)
sub_runs(s, keep, rep) ==
    IF s = <<>> THEN <<>>
    ELSE IF Head(s) \notin keep
      THEN IF Len(s) > 1 /\ s[2] \notin keep
             THEN sub_runs(Tail(s), keep, rep)
             ELSE rep \o sub_runs(Tail(s), keep, rep)
    ELSE <<Head(s)>> \o sub_runs(Tail(s), keep, rep)

\* re.sub(r"_+", "_", s)
RECURSIVE squeeze_underscores(_)
squeeze_underscores(s) ==
    IF s = <<>> THEN <<>>
    ELSE IF Head(s) = "_" /\ Len(s) > 1 /\ s[2] = "_"
      THEN squeeze_underscores(Tail(s))
    ELSE <<Head(s)>> \o squeeze_underscores(Tail(s))

\* s.strip("_")
strip_underscores(s) ==
    LET idx == {i \in 1..Len(s) : s[i] # "_"}
    IN  IF idx = {} THEN <<>> ELSE SubSeq(s, SetMin(idx), SetMax(idx))

ToUpper(s) ==
    [i \in 1..Len(s) |->
        IF s[i] \in AsciiLower
          THEN UpperSeq[CHOOSE n \in 1..26 : LowerSeq[n] = s[i]]
          ELSE s[i]]

\* str.title(): a letter that follows no letter is upper-cased, every other
\* letter is lower-cased
title(s) ==
    [i \in 1..Len(s) |->
        IF i > 1 /\ s[i - 1] \in AsciiLetter
          THEN ToLower(<<s[i]>>)[1]
          ELSE ToUpper(<<s[i]>>)[1]]

\* s.replace(" ", "")
remove_blanks(s) == SelectSeq(s, LAMBDA c : c # " ")

EndsWith(s, suffix) ==
    /\ Len(suffix) <= Len(s)
    /\ SubSeq(s, Len(s) - Len(suffix) + 1, Len(s)) = suffix

ParserSuffix == <<"P", "a", "r", "s", "e", "r">>

ModuleSuffix == <<"_", "p", "a", "r", "s", "e", "r">>

safe_module_name(name) ==
    strip_underscores(squeeze_underscores(
        sub_runs(ToLower(Strip(name)), AsciiLower \cup Digits, <<"_">>)))
      \o ModuleSuffix

class_name_from_schema(name) ==
    LET core == remove_blanks(title(sub_runs(name, Alnum, <<" ">>)))
    IN  IF ~EndsWith(core, ParserSuffix) THEN core \o ParserSuffix ELSE core

-----------------------------------------------------------------------------
(* The package core.schema.parsers and ParserFactory.get *)

MaxGenerated == 1

BaseParserName == <<"B", "a", "s", "e">> \o ParserSuffix

DefaultParserName == <<"D", "e", "f", "a", "u", "l", "t">> \o ParserSuffix

ZParserName == <<"Z">> \o ParserSuffix

Module(stem, attrs) == [t |-> "module", stem |-> stem, attrs |-> attrs]

Attr(name, cls) == [name |-> name, cls |-> cls]

\* what "from .base_parser import BaseParser" binds in a module
ImportedBase == Attr(BaseParserName, "BaseParser")

\* a module written by _write_parser_file (z_parser.py is one): a subclass
\* of BaseParser whose _fallback_get is get_dot_value; the class statement
\* rebinds an imported name that equals the class title
GeneratedModule(stem, class_title) ==
    Module(stem, {Attr(class_title, "Generated")}
                   \cup {a \in {ImportedBase} : a.name # class_title})

\* the parser modules of the repository
RepositoryParsers ==
    { Module(ToLower(<<"B", "a", "s", "e">>) \o ModuleSuffix, {ImportedBase}),
      Module(ToLower(<<"D", "e", "f", "a", "u", "l", "t">>) \o ModuleSuffix,
             {Attr(DefaultParserName, "DefaultParser"), ImportedBase}),
      GeneratedModule(<<"z">> \o ModuleSuffix, ZParserName) }

\* _write_parser_file: an existing file is left as it is
write_parser_file(dir, class_name) ==
    LET module_stem == safe_module_name(class_name)
        class_title == class_name_from_schema(class_name)
    IN  IF \E m \in dir : m.stem = module_stem THEN dir
        ELSE dir \cup {GeneratedModule(module_stem, class_title)}

\* importlib.import_module("core.schema.parsers." + mod_name)
import_module(dir, mod_name) ==
    IF \E m \in dir : m.stem = mod_name
      THEN CHOOSE m \in dir : m.stem = mod_name
      ELSE Raise("ModuleNotFoundError")

\* getattr(mod, class_name)
getattr(mod, class_name) ==
    IF \E a \in mod.attrs : a.name = class_name
      THEN (CHOOSE a \in mod.attrs : a.name = class_name).cls
      ELSE "AttributeError"

Parser(cls) == [t |-> "parser", cls |-> cls]

\* the classes whose instances are instances of BaseParser
BaseParserClasses == {"BaseParser", "DefaultParser", "Generated"}

\* the try block of ParserFactory.get, lines 37-43
locate(dir, schema_name_) ==
    LET mod_name   == safe_module_name(schema_name_)
        class_name == class_name_from_schema(schema_name_)
        mod        == import_module(dir, mod_name)
    IN  IF IsRaised(mod) THEN mod
        ELSE LET cls == getattr(mod, class_name)
             IN  IF cls = "AttributeError" THEN Raise("AttributeError")
                 ELSE IF cls \notin BaseParserClasses THEN Raise("TypeError")
                 ELSE Parser(cls)

get_uncaught(dir, schema_name_) == locate(dir, schema_name_)

\* ParserFactory.get: any exception of the try block gives DefaultParser()
get(dir, schema_name_) ==
    LET located == locate(dir, schema_name_)
    IN  IF IsRaised(located) THEN Parser("DefaultParser") ELSE located

\* BaseParser._fallback_get and its overrides
fallback_get(cls, d, field) ==
    IF cls = "BaseParser" THEN Raise("NotImplementedError")
    ELSE get_dot_value(d, field)

\* the loop of BaseParser.extract from the i-th field on
RECURSIVE base_extract_fields(_, _, _, _, _)
base_extract_fields(res, cls, d, fs, i) ==
    IF i > Len(fs) THEN res
    ELSE LET f          == fs[i]
             overridden == extract_field(d, f)
         IN  IF overridden # None
               THEN base_extract_fields(DictSet(res, f, overridden),
                                        cls, d, fs, i + 1)
               ELSE LET got == fallback_get(cls, d, f)
                    IN  IF IsRaised(got) THEN got
                        ELSE base_extract_fields(DictSet(res, f, got),
                                                 cls, d, fs, i + 1)

\* BaseParser.extract, as inherited by the generated parsers
base_extract(cls, d, fs) == base_extract_fields(Obj(<<>>), cls, d, fs, 1)

\* parser.extract(d, fs) on a strategy the factory returned; a DefaultParser
\* built by the factory has no skeleton attached
strategy_extract(parser, d, fs) ==
    IF parser.cls = "DefaultParser" THEN extract(None, d, fs)
    ELSE base_extract(parser.cls, d, fs)

-----------------------------------------------------------------------------
(* Inputs of the factory *)

NameAlphabet == {"z", "B", "9", "_", " "}

\* "", "!!!", "base", "Base", "default", "unknown", "z parser", "zParser",
\* "base parser"
SampleNames ==
    { <<>>,
      <<"!", "!", "!">>,
      <<"b", "a", "s", "e">>,
      <<"B", "a", "s", "e">>,
      <<"d", "e", "f", "a", "u", "l", "t">>,
      <<"u", "n", "k", "n", "o", "w", "n">>,
      <<"z", " ">> \o ToLower(ParserSuffix),
      <<"z">> \o ParserSuffix,
      <<"b", "a", "s", "e", " ">> \o ToLower(ParserSuffix) }

Names == StringsUpTo(NameAlphabet, MaxNameLen) \cup SampleNames

\* class names registered through the dialog: "b", "!", "z parser", "base",
\* "b9"
GeneratedNames ==
    { <<"b">>, <<"!">>, <<"z", " ">> \o ToLower(ParserSuffix),
      <<"b", "a", "s", "e">>, <<"b", "9">> }

XdotY == <<"x", ".", "y">>

\* {}, {"x":1}, {"x":[{"y":1},{"y":2}]}
FactoryRecords ==
    {Obj(<<>>), Obj(<<[k |-> X, v |-> Prim("1")]>>), BroadcastSample}

FactoryFields == {<<>>, <<X>>, <<Y>>, <<X, XdotY>>}

NormalizeIdle ==
    /\ key = Idle
    /\ k_delim = Idle
    /\ norm1 = Idle
    /\ norm2 = Idle

normalize_vars == <<key, k_delim, norm1, norm2>>

InitFactory ==
    /\ pc = "start"
    /\ schema_name \in Names
    /\ parsers_dir = RepositoryParsers
    /\ inst = Idle
    /\ data = Idle
    /\ dot_path = Idle
    /\ result = Idle
    /\ NormalizeIdle
    /\ ExtractorIdle
    /\ ParserIdle
    /\ CollectIdle
    /\ WorkerIdle
    /\ SplitIdle

\* the dialog saves a schema and writes its parser module
WriteParserFile ==
    /\ pc = "start"
    /\ Cardinality(parsers_dir) < Cardinality(RepositoryParsers) + MaxGenerated
    /\ \E class_name \in GeneratedNames :
          parsers_dir' = write_parser_file(parsers_dir, class_name)
    /\ UNCHANGED <<pc, schema_name, inst, data, dot_path, result>>
    /\ UNCHANGED <<normalize_vars, extractor_vars, parser_vars>>
    /\ UNCHANGED <<collect_vars, worker_vars, split_vars>>

\* ParserFactory.get(schema_name)
Get ==
    /\ pc = "start"
    /\ inst' = get(parsers_dir, schema_name)
    /\ pc' = "got"
    /\ UNCHANGED <<schema_name, parsers_dir, data, dot_path, result>>
    /\ UNCHANGED <<normalize_vars, extractor_vars, parser_vars>>
    /\ UNCHANGED <<collect_vars, worker_vars, split_vars>>

\* inst.extract(data, fields) returns
StrategyExtracts ==
    /\ pc = "got"
    /\ ~IsRaised(inst)
    /\ \E d \in FactoryRecords, fs \in FactoryFields :
          /\ ~IsRaised(strategy_extract(inst, d, fs))
          /\ data' = d
          /\ fields' = fs
          /\ result' = strategy_extract(inst, d, fs)
    /\ pc' = "extracted"
    /\ UNCHANGED <<schema_name, parsers_dir, inst, dot_path, schema_skeleton>>
    /\ UNCHANGED <<normalize_vars, extractor_vars>>
    /\ UNCHANGED <<collect_vars, worker_vars, split_vars>>

\* inst.extract(data, fields) raises
StrategyRaises ==
    /\ pc = "got"
    /\ ~IsRaised(inst)
    /\ \E d \in FactoryRecords, fs \in FactoryFields :
          /\ IsRaised(strategy_extract(inst, d, fs))
          /\ data' = d
          /\ fields' = fs
          /\ error' = strategy_extract(inst, d, fs).exc
    /\ pc' = "extract raised"
    /\ UNCHANGED <<schema_name, parsers_dir, inst, dot_path, schema_skeleton>>
    /\ UNCHANGED <<normalize_vars, result>>
    /\ UNCHANGED <<collect_vars, worker_vars, split_vars>>
    /\ UNCHANGED <<sample_log_text, prompt, calls, attempts, last_raw>>

NextFactory == WriteParserFile \/ Get \/ StrategyExtracts \/ StrategyRaises

SpecFactory == InitFactory /\ [][NextFactory]_vars

-----------------------------------------------------------------------------
(* Properties of the parser factory *)

\* a class is bound under the names derived from the identifier
Registered(dir, name) ==
    \E m \in dir :
        /\ m.stem = safe_module_name(name)
        /\ \E a \in m.attrs : a.name = class_name_from_schema(name)

\* C21: ParserFactory.get never raises, whatever the schema identifier (the
\* empty one and those without any alphanumeric character included): it
\* always returns a strategy, and a DefaultParser when no class is registered
\* under the derived module and class names.
C21_GetNeverRaises ==
    pc = "got" =>
        /\ ~IsRaised(inst)
        /\ inst.cls \in BaseParserClasses
        /\ ~Registered(parsers_dir, schema_name) => inst = Parser("DefaultParser")

\* get("!!!") with no parser generated for such a name: the default strategy
C21_Witness ==
    /\ pc = "got"
    /\ schema_name = <<"!", "!", "!">>
    /\ ~Registered(parsers_dir, schema_name)
    /\ inst = Parser("DefaultParser")

\* C22: every strategy the factory returns keeps the extraction contract,
\* extract(record, paths) returns a mapping and does not raise; a located
\* class without a fallback resolver, as the abstract base found for "base",
\* is replaced by the default strategy.
C22_ExtractionContract ==
    /\ pc # "extract raised"
    /\ pc = "extracted" => IsDict(result)
    /\ pc \in {"got", "extracted"} => inst.cls # "BaseParser"

\* the record holds nothing at the i-th requested path
AbsentAt(i) == get_dot_value(data, fields[i]) = None

\* C23: on the default strategy and on the generated parsers alike,
\* extracting a path that is absent from the record is no error and yields
\* {}, [] or "", never None.
C23_AbsentGivesDefault ==
    /\ pc = "extract raised" => inst.cls \notin {"DefaultParser", "Generated"}
    /\ (pc = "extracted" /\ inst.cls \in {"DefaultParser", "Generated"}) =>
          \A i \in 1..Len(fields) :
              AbsentAt(i) =>
                  DictGet(result, fields[i]) \in {Obj(<<>>), Arr(<<>>), EmptyStr}

-----------------------------------------------------------------------------
(* core/extract/extract_service.py *)

MaxFiles == 2

RECURSIVE service_walk(_, _)

\* the loop of lines 129-130 from the i-th item on
RECURSIVE service_collect(_, _, _, _)
service_collect(node, keys, collected, i) ==
    IF i > Len(node.e) THEN collected
    ELSE service_collect(node, keys,
                         Append(collected, service_walk(node.e[i], keys)),
                         i + 1)

\* _walk without lines 132-135: the collected list is returned as it is
service_walk_no_collapse(node, keys) ==
    IF Len(keys) = 0 THEN node
    ELSE IF IsDict(node)
      THEN IF keys[1] \notin DictKeys(node) THEN None
           ELSE service_walk(DictGet(node, keys[1]), SubSeq(keys, 2, Len(keys)))
    ELSE IF IsList(node) THEN Arr(service_collect(node, keys, <<>>, 1))
    ELSE None

\* ExtractService._walk
service_walk(node, keys) ==
    IF Len(keys) = 0 THEN node
    ELSE LET head == keys[1]
             tail == SubSeq(keys, 2, Len(keys))
         IN  IF IsDict(node)
               THEN IF head \notin DictKeys(node) THEN None
                    ELSE service_walk(DictGet(node, head), tail)
             ELSE IF IsList(node)
               THEN LET collected == service_collect(node, keys, <<>>, 1)
                        all_none  == \A n \in 1..Len(collected) :
                                        collected[n] = None
                    IN  IF all_none THEN None ELSE Arr(collected)
             ELSE None

\* ExtractService._get_dot_value
service_get_dot_value(d, dot) == service_walk(d, SplitDots(dot))

FileKey == <<"_", "_", "f", "i", "l", "e", "_", "_">>

\* Path.read_text fails
Unreadable == Raise("OSError")

\* lines 88-94: the file cannot be read or its text is not JSON
cannot_parse(file) == IsRaised(file.content) \/ file.content = InvalidJson

\* lines 96-98: the row of a parsed file
RECURSIVE row_from(_, _, _, _)
row_from(row, d, selected_fields, i) ==
    IF i > Len(selected_fields) THEN row
    ELSE row_from(DictSet(row, selected_fields[i],
                          service_get_dot_value(d, selected_fields[i])),
                  d, selected_fields, i + 1)

row_of(file, selected_fields) ==
    row_from(Obj(<<[k |-> FileKey, v |-> Prim(file.path)]>>),
             file.content, selected_fields, 1)

ExtractionSummary(scanned_, parsed_ok, parsed_failed) ==
    [t |-> "summary", scanned |-> scanned_, parsed_ok |-> parsed_ok,
     parsed_failed |-> parsed_failed]

\* extract_to_json(self, folder, selected_fields, out_path)
ServiceParameters == <<"folder", "selected_fields", "out_path">>

\* extract_data: extract_to_json(folder, schema_name, selected, path)
PanelArguments == <<"folder", "schema_name", "selected", "path">>

\* a call binds when it passes as many positional arguments as the method
\* has parameters
call_binds(args, params) == Len(args) = Len(params)

-----------------------------------------------------------------------------
(* Inputs of bulk extraction *)

\* an unreadable file, text that is not JSON, {}, {"x":1}, [1],
\* {"x":[{"y":1},{"y":2}]}
FileContents ==
    {Unreadable, InvalidJson, Obj(<<>>), Obj(<<[k |-> X, v |-> Prim("1")]>>),
     Arr(<<Prim("1")>>), BroadcastSample}

FilePaths == <<"f1", "f2", "f3", "f4">>

FileLists ==
    UNION {[1..n -> FileContents] : n \in 0..MaxFiles}

CollectFields == {<<X>>, <<Y, XdotY>>, <<X, X>>, <<FileKey, X>>}

InitCollect ==
    /\ pc = "start"
    /\ \E contents \in FileLists :
          files = [i \in 1..Len(contents) |->
                      [path |-> FilePaths[i], content |-> contents[i]]]
    /\ fields \in CollectFields
    /\ records = Idle
    /\ scanned = Idle
    /\ ok = Idle
    /\ failed = Idle
    /\ summary = Idle
    /\ result_area = Returned(<<>>)
    /\ error = Idle
    /\ data = Idle
    /\ dot_path = Idle
    /\ result = Idle
    /\ schema_skeleton = Idle
    /\ sample_log_text = Idle
    /\ prompt = Idle
    /\ calls = Idle
    /\ attempts = Idle
    /\ last_raw = Idle
    /\ NormalizeIdle
    /\ FactoryIdle
    /\ WorkerIdle
    /\ SplitIdle

collect_frame ==
    <<normalize_vars, factory_vars, worker_vars, split_vars, data, dot_path,
      result, schema_skeleton, sample_log_text, prompt, calls, attempts,
      last_raw>>

\* ExtractPanel.extract_data, the handler of the Extract button: the call of
\* the service does not bind, the TypeError is shown in a message box and
\* the handler returns
ExtractData ==
    /\ pc = "start"
    /\ ~call_binds(PanelArguments, ServiceParameters)
    /\ error' = "TypeError"
    /\ pc' = "error shown"
    /\ UNCHANGED <<files, fields, records, scanned, ok, failed, summary,
                   result_area>>
    /\ UNCHANGED collect_frame

\* extract_to_json(folder, selected_fields, out_path) enters _collect_records
CollectRecords ==
    /\ pc = "start"
    /\ pc' = "collect"
    /\ records' = <<>>
    /\ scanned' = 0
    /\ ok' = 0
    /\ failed' = 0
    /\ UNCHANGED <<files, fields, summary, result_area, error>>
    /\ UNCHANGED collect_frame

\* one iteration of the loop, lines 85-94: the file is counted as failed
FileFails ==
    /\ pc = "collect"
    /\ scanned < Len(files)
    /\ cannot_parse(files[scanned + 1])
    /\ scanned' = scanned + 1
    /\ failed' = failed + 1
    /\ UNCHANGED <<pc, files, fields, records, ok, summary, result_area, error>>
    /\ UNCHANGED collect_frame

\* one iteration of the loop, lines 85-99: the file gives a record
FileParses ==
    /\ pc = "collect"
    /\ scanned < Len(files)
    /\ ~cannot_parse(files[scanned + 1])
    /\ scanned' = scanned + 1
    /\ records' = Append(records, row_of(files[scanned + 1], fields))
    /\ ok' = ok + 1
    /\ UNCHANGED <<pc, files, fields, failed, summary, result_area, error>>
    /\ UNCHANGED collect_frame

\* line 101 and extract_to_json lines 44-45: the summary is returned
ReturnSummary ==
    /\ pc = "collect"
    /\ scanned = Len(files)
    /\ summary' = ExtractionSummary(scanned, ok, failed)
    /\ pc' = "returned"
    /\ UNCHANGED <<files, fields, records, scanned, ok, failed, result_area,
                   error>>
    /\ UNCHANGED collect_frame

NextCollect ==
    ExtractData \/ CollectRecords \/ FileFails \/ FileParses \/ ReturnSummary

SpecCollect == InitCollect /\ [][NextCollect]_vars

-----------------------------------------------------------------------------
(* Properties of bulk extraction *)

\* the files among the first n that cannot be read or parsed
FailedAmong(n) == {i \in 1..n : cannot_parse(files[i])}

\* the row carries __file__ and one entry per requested path
RowCarriesPaths(row) ==
    DictKeys(row) = {FileKey} \cup {fields[i] : i \in 1..Len(fields)}

\* the counters after every file
CountersConsistent ==
    pc \in {"collect", "returned"} =>
        /\ scanned = ok + failed
        /\ Len(records) = ok
        /\ failed = Cardinality(FailedAmong(scanned))
        /\ \A i \in 1..Len(records) : RowCarriesPaths(records[i])
        /\ pc = "returned" =>
              /\ scanned = Len(files)
              /\ summary = ExtractionSummary(scanned, ok, failed)

\* C24: bulk extraction keeps scanned = parsed_ok + parsed_failed and one
\* record per parsed file after every file; a file that cannot be read or
\* parsed counts as failed, gives no record and does not stop the remaining
\* files, whose records carry __file__ and one entry per requested path;
\* and the Extract action of the panel ends with the summary of these
\* counts shown to its caller.
C24_CountersReachCaller ==
    /\ CountersConsistent
    /\ pc \notin {"start", "collect", "returned"} =>
          result_area = ExtractionSummary(Len(files),
                                          Len(files)
                                            - Cardinality(FailedAmong(Len(files))),
                                          Cardinality(FailedAmong(Len(files))))

-----------------------------------------------------------------------------
(* ui/class_registration_dialog.py: schema generation in the worker *)

\* extract_schema(self, sample_log_text): the names a call may pass by
\* keyword
ExtractSchemaParameters == {"sample_log_text"}

\* run calls extract_schema(self.sample, use_ai_refine=...)
WorkerKeywords == {"use_ai_refine"}

\* a call with keyword arguments the method does not declare raises
\* TypeError before the body runs; otherwise it gives the body's outcome
bound_call(kwargs, parameters, outcome) ==
    IF kwargs \subseteq parameters THEN outcome ELSE Raise("TypeError")

FinishedSignal(base, refined_) ==
    [t |-> "signal", name |-> "finished", base_schema |-> base,
     refined |-> refined_]

ErrorSignal(message) == [t |-> "signal", name |-> "error", message |-> message]

\* SchemaWorker.run, given what the body of extract_schema would give on
\* the first and on the second call
run(first, second) ==
    LET step1 == bound_call(WorkerKeywords, ExtractSchemaParameters, first)
    IN  IF IsRaised(step1) THEN ErrorSignal(step1.exc)
        ELSE LET step2 == bound_call(WorkerKeywords, ExtractSchemaParameters,
                                     second)
             IN  FinishedSignal(step1, IF IsRaised(step2) THEN None ELSE step2)

\* the text of the preview: empty, or the JSON of a schema
Preview(schema) == [t |-> "preview", schema |-> schema]

\* _on_schema_finished line 197: refined_schema or base_schema
refined_or_base(base, refined_) == IF Falsy(refined_) THEN base ELSE refined_

\* what the body of extract_schema gives: a skeleton recovered from the text
\* generator, or SchemaExtractionError after the two attempts
BodyOutcomes ==
    {Obj(<<>>), Obj(<<[k |-> X, v |-> EmptyStr]>>),
     Raise("SchemaExtractionError")}

\* samples that are valid JSON
ValidSamples == SkelData \ {InvalidJson}

InitWorker ==
    /\ pc = "start"
    /\ data \in ValidSamples
    /\ base_schema = Idle
    /\ refined = Idle
    /\ emitted = Idle
    /\ schema_preview = Returned(<<>>)
    /\ error = Idle
    /\ dot_path = Idle
    /\ result = Idle
    /\ sample_log_text = Idle
    /\ prompt = Idle
    /\ calls = Idle
    /\ attempts = Idle
    /\ last_raw = Idle
    /\ NormalizeIdle
    /\ ParserIdle
    /\ FactoryIdle
    /\ CollectIdle
    /\ SplitIdle

worker_frame ==
    <<normalize_vars, parser_vars, factory_vars, collect_vars, split_vars,
      data, dot_path, result, sample_log_text, prompt, calls, attempts,
      last_raw>>

\* generate_schema: the preview is cleared and the worker thread started
GenerateSchema ==
    /\ pc = "start"
    /\ schema_preview' = Returned(<<>>)
    /\ pc' = "running"
    /\ UNCHANGED <<base_schema, refined, emitted, error>>
    /\ UNCHANGED worker_frame

\* SchemaWorker.run
Run ==
    /\ pc = "running"
    /\ \E first, second \in BodyOutcomes :
          LET signal == run(first, second)
          IN  /\ emitted' = signal
              /\ IF signal.name = "finished"
                   THEN /\ base_schema' = signal.base_schema
                        /\ refined' = signal.refined
                   ELSE UNCHANGED <<base_schema, refined>>
    /\ pc' = "emitted"
    /\ UNCHANGED <<schema_preview, error>>
    /\ UNCHANGED worker_frame

\* the slot connected to the signal: _on_schema_finished or _on_schema_error
DeliverSignal ==
    /\ pc = "emitted"
    /\ IF emitted.name = "finished"
         THEN /\ schema_preview'
                    = Preview(refined_or_base(emitted.base_schema,
                                              emitted.refined))
              /\ error' = error
         ELSE /\ error' = emitted.message
              /\ schema_preview' = schema_preview
    /\ pc' = "done"
    /\ UNCHANGED <<base_schema, refined, emitted>>
    /\ UNCHANGED worker_frame

NextWorker == GenerateSchema \/ Run \/ DeliverSignal

SpecWorker == InitWorker /\ [][NextWorker]_vars

-----------------------------------------------------------------------------
(* Properties of schema generation *)

\* C25: guaranteed fallback: schema generation on a sample that is valid
\* JSON always finishes with a skeleton, the one recovered from the text
\* generator or else the deterministic skeleton built from the sample; a
\* failure of the text generator never turns the generation into an error.
C25_GuaranteedFallback ==
    pc = "done" =>
        /\ emitted.name = "finished"
        /\ error = Idle
        /\ \/ schema_preview = Preview(build_skeleton_from_json(data))
           \/ /\ schema_preview.t = "preview"
              /\ schema_preview.schema \in BodyOutcomes

-----------------------------------------------------------------------------
(* The fuzzy matching resolver, strategy B of the extraction strategies *)

MaxFuzzyNodes == 3

\* underscores treated as spaces
underscores_as_spaces(s) == [i \in 1..Len(s) |-> IF s[i] = "_" THEN " " ELSE s[i]]

\* the descriptive-suffix delimiters: "--", an em-dash, "-" followed by
\* whitespace, ":" (alone or followed by a blank)
FuzzyDelimiters ==
    << <<{"-"}, {"-"}>>, <<{EmDash}>>, <<{"-"}, Whitespace>>, <<{":"}>> >>

\* the key cut at the first delimiter
cut_delimiter_tail(s) ==
    LET at == {i \in 1..Len(s) :
                  \E a \in 1..Len(FuzzyDelimiters) :
                      MatchesAt(s, i, FuzzyDelimiters[a])}
    IN  IF at = {} THEN s ELSE SubSeq(s, 1, SetMin(at) - 1)

\* a trailing "of N" stripped: blank, "of", blank, digits up to the end
strip_of_n(s) ==
    LET at == {j \in 1..Len(s) :
                  /\ MatchesAt(s, j, <<{" "}, {"o"}, {"f"}, {" "}, Digits>>)
                  /\ \A i \in (j + 4)..Len(s) : s[i] \in Digits}
    IN  IF at = {} THEN s ELSE SubSeq(s, 1, SetMin(at) - 1)

\* the normalized form of a key or of a requested name
fuzzy_normalize(k) ==
    Strip(strip_of_n(Strip(cut_delimiter_tail(
        underscores_as_spaces(ToLower(Strip(k)))))))

\* the key's normalized form starts with the normalized requested name
fuzzy_matches(k, field) == IsPrefix(fuzzy_normalize(field), fuzzy_normalize(k))

Found(v) == [t |-> "found", v |-> v]

NotFound == [t |-> "not found"]

\* the first key of the object, from the i-th entry on, that matches
RECURSIVE first_direct(_, _, _)
first_direct(obj, field, i) ==
    IF i > Len(obj.kv) THEN NotFound
    ELSE IF fuzzy_matches(obj.kv[i].k, field) THEN Found(obj.kv[i].v)
    ELSE first_direct(obj, field, i + 1)

\* pass 1: a direct key of the top-level object
pass_top_level(record, field) ==
    IF IsDict(record) THEN first_direct(record, field, 1) ELSE NotFound

\* pass 2: the same check inside each object value of the top level, from
\* the i-th entry on
RECURSIVE pass_one_level_down(_, _, _)
pass_one_level_down(record, field, i) ==
    IF ~IsDict(record) \/ i > Len(record.kv) THEN NotFound
    ELSE LET inner == IF IsDict(record.kv[i].v)
                        THEN first_direct(record.kv[i].v, field, 1)
                        ELSE NotFound
         IN  IF inner # NotFound THEN inner
             ELSE pass_one_level_down(record, field, i + 1)

\* pass 3: depth-first search of the whole tree, objects and arrays; the
\* children of node from the i-th on
RECURSIVE depth_first(_, _, _)
depth_first(node, field, i) ==
    IF IsDict(node)
      THEN IF i > Len(node.kv) THEN NotFound
           ELSE IF fuzzy_matches(node.kv[i].k, field) THEN Found(node.kv[i].v)
           ELSE LET below == depth_first(node.kv[i].v, field, 1)
                IN  IF below # NotFound THEN below
                    ELSE depth_first(node, field, i + 1)
    ELSE IF IsList(node)
      THEN IF i > Len(node.e) THEN NotFound
           ELSE LET below == depth_first(node.e[i], field, 1)
                IN  IF below # NotFound THEN below
                    ELSE depth_first(node, field, i + 1)
    ELSE NotFound

\* the three passes with the depth-first search alone
fuzzy_get_depth_first_only(record, field) ==
    LET p3 == depth_first(record, field, 1)
    IN  IF p3 # NotFound THEN p3.v ELSE EmptyStr

\* the three escalating passes; the empty string when none succeeds
fuzzy_get(record, field) ==
    LET p1 == pass_top_level(record, field)
        p2 == pass_one_level_down(record, field, 1)
        p3 == depth_first(record, field, 1)
    IN  IF p1 # NotFound THEN p1.v
        ELSE IF p2 # NotFound THEN p2.v
        ELSE IF p3 # NotFound THEN p3.v
        ELSE EmptyStr

\* extract(record, fieldPaths) of the fuzzy strategy, from the i-th name on
RECURSIVE fuzzy_extract_fields(_, _, _, _)
fuzzy_extract_fields(res, record, fs, i) ==
    IF i > Len(fs) THEN res
    ELSE fuzzy_extract_fields(DictSet(res, fs[i], fuzzy_get(record, fs[i])),
                              record, fs, i + 1)

fuzzy_extract(record, fs) == fuzzy_extract_fields(Obj(<<>>), record, fs, 1)

-----------------------------------------------------------------------------
(* Inputs of the fuzzy resolver *)

FuzzyPrims == {"1", "2"}

\* "a", "sx", "S_of_3"
FuzzyKeys == {<<"a">>, <<"s", "x">>, <<"S", "_", "o", "f", "_", "3">>}

StatusName == <<"s", "t", "a", "t", "u", "s">>

\* {"status_of_3":"ok"}
StatusSample ==
    Obj(<<[k |-> StatusName \o <<"_", "o", "f", "_", "3">>, v |-> Prim("ok")]>>)

\* {"a":{"sx":1},"sx":2}
TopLevelFirstSample ==
    Obj(<<[k |-> <<"a">>, v |-> Obj(<<[k |-> <<"s", "x">>, v |-> Prim("1")]>>)],
          [k |-> <<"s", "x">>, v |-> Prim("2")]>>)

\* {"a":[{"sx":1}],"b":{"sx--note":2}}
OneLevelDownSample ==
    Obj(<<[k |-> <<"a">>,
           v |-> Arr(<<Obj(<<[k |-> <<"s", "x">>, v |-> Prim("1")]>>)>>)],
          [k |-> <<"b">>,
           v |-> Obj(<<[k |-> <<"s", "x", "-", "-", "n", "o", "t", "e">>,
                        v |-> Prim("2")]>>)]>>)

FuzzyRecords ==
    TreesUpTo(FuzzyPrims, FuzzyKeys, MaxFuzzyNodes)
        \cup {StatusSample, TopLevelFirstSample, OneLevelDownSample}

\* "s", "sx", "a", "x", "S_of_3", "status", ""
FuzzyNames ==
    {<<"s">>, <<"s", "x">>, <<"a">>, <<"x">>, <<"S", "_", "o", "f", "_", "3">>,
     StatusName, <<>>}

InitFuzzy ==
    /\ pc = "start"
    /\ data \in FuzzyRecords
    /\ \E f \in FuzzyNames : fields = <<f>>
    /\ result = Idle
    /\ dot_path = Idle
    /\ schema_skeleton = Idle
    /\ NormalizeIdle
    /\ ExtractorIdle
    /\ LateIdle

\* extract(record, fieldPaths) of the fuzzy strategy
FuzzyExtract ==
    /\ pc = "start"
    /\ pc' = "extracted"
    /\ result' = fuzzy_extract(data, fields)
    /\ UNCHANGED <<normalize_vars, extractor_vars, parser_vars, late_vars>>
    /\ UNCHANGED <<data, dot_path>>

NextFuzzy == FuzzyExtract

SpecFuzzy == InitFuzzy /\ [][NextFuzzy]_vars

-----------------------------------------------------------------------------
(* Properties of the fuzzy resolver *)

\* the entries of the objects of the whole tree
RECURSIVE EntriesOf(_)
EntriesOf(node) ==
    IF IsDict(node)
      THEN {node.kv[i] : i \in 1..Len(node.kv)}
             \cup UNION {EntriesOf(node.kv[i].v) : i \in 1..Len(node.kv)}
    ELSE IF IsList(node)
      THEN UNION {EntriesOf(node.e[i]) : i \in 1..Len(node.e)}
    ELSE {}

\* the normalized key starts with the normalized name
StartsWithName(k, f) ==
    LET nk == fuzzy_normalize(k)
        nf == fuzzy_normalize(f)
    IN  Len(nf) <= Len(nk) /\ \A i \in 1..Len(nf) : nk[i] = nf[i]

\* the positions of the entries of an object whose key matches
HitsIn(obj, f) ==
    IF IsDict(obj)
      THEN {i \in 1..Len(obj.kv) : StartsWithName(obj.kv[i].k, f)}
      ELSE {}

\* the top-level positions whose value is an object holding a matching key
HitsBelow(obj, f) ==
    IF IsDict(obj)
      THEN {i \in 1..Len(obj.kv) : HitsIn(obj.kv[i].v, f) # {}}
      ELSE {}

\* the value the prefix law asks for, where the law fixes one
PrefixLawFor(f, got) ==
    IF HitsIn(data, f) # {}
      THEN got = data.kv[SetMin(HitsIn(data, f))].v
    ELSE IF HitsBelow(data, f) # {}
      THEN LET inner == data.kv[SetMin(HitsBelow(data, f))].v
           IN  got = inner.kv[SetMin(HitsIn(inner, f))].v
    ELSE IF \E e \in EntriesOf(data) : StartsWithName(e.k, f)
      THEN \E e \in EntriesOf(data) : StartsWithName(e.k, f) /\ got = e.v
    ELSE got = EmptyStr

-----------------------------------------------------------------------------
(* Rejection of unconvertible schemas *)

\* the document carries $schema and nothing else
OnlySchemaKey(d) == IsDict(d) /\ DictKeys(d) = {KwSchema}

\* C27: a schema-shaped document that converts to something that is not an
\* object (its root describes an array or a primitive type, or it carries
\* $schema only) is rejected as a failure; no empty or guessed skeleton is
\* returned in its place.
C27_UnconvertibleRejected ==
    (pc = "returned" /\ looks_like_json_schema(data)) =>
        /\ IsDict(convert(data))
        /\ ~OnlySchemaKey(data)

-----------------------------------------------------------------------------
(* ui/extract_panel.py: the field paths of a schema *)

\* prefix.split(".")[0]
first_segment(prefix) == SplitDots(prefix)[1]

\* group or prefix.split(".")[0]
group_or_first(group, prefix) ==
    IF group # <<>> THEN group ELSE first_segment(prefix)

\* add(g, p)
Grouped(g, p) == [group |-> g, path |-> p]

\* walk of _flatten_to_groups, lines 332-354: the entries it adds
RECURSIVE flatten_walk(_, _, _)
flatten_walk(node, prefix, group_in) ==
    LET group == IF prefix # <<>> /\ \A i \in 1..Len(prefix) : prefix[i] # "."
                   THEN first_segment(prefix)
                   ELSE group_in
        below(dict) ==
            UNION {flatten_walk(dict.kv[i].v,
                                prefix \o <<".">> \o dict.kv[i].k,
                                group_or_first(group, prefix)) :
                   i \in 1..Len(dict.kv)}
        leaf == {Grouped(group_or_first(group, prefix), prefix)}
    IN  IF IsDict(node)
          THEN IF prefix = <<>>
                 THEN UNION {flatten_walk(node.kv[i].v, node.kv[i].k,
                                          node.kv[i].k) :
                             i \in 1..Len(node.kv)}
                 ELSE below(node)
        ELSE IF IsList(node)
          THEN IF node.e = <<>> THEN leaf
               ELSE IF IsDict(node.e[1]) THEN below(node.e[1])
               ELSE leaf
        ELSE leaf

\* _flatten_to_groups: the paths of each group, as a set
flatten_to_groups(schema) == flatten_walk(schema, <<>>, <<>>)

\* the paths offered for selection
field_paths(schema) == {g.path : g \in flatten_to_groups(schema)}

-----------------------------------------------------------------------------
(* Builder and resolver together *)

\* object records
RoundTripRecords ==
    {r \in SkelData : r # InvalidJson /\ IsDict(r)} \cup {BroadcastSample}

InitRoundTrip ==
    /\ pc = "start"
    /\ data \in RoundTripRecords
    /\ schema_skeleton = Idle
    /\ fields = Idle
    /\ result = Idle
    /\ dot_path = Idle
    /\ NormalizeIdle
    /\ ExtractorIdle
    /\ LateIdle

\* the skeleton of the record is built and its field paths are listed
LoadFieldsFromSchema ==
    /\ pc = "start"
    /\ schema_skeleton' = build_skeleton_from_json(data)
    /\ fields' = field_paths(build_skeleton_from_json(data))
    /\ pc' = "loaded"
    /\ UNCHANGED <<data, dot_path, result>>
    /\ UNCHANGED <<normalize_vars, extractor_vars, late_vars>>

\* every listed path is resolved against the record
ResolveFields ==
    /\ pc = "loaded"
    /\ result' = [p \in fields |-> get_dot_value(data, p)]
    /\ pc' = "resolved"
    /\ UNCHANGED <<data, dot_path, schema_skeleton, fields>>
    /\ UNCHANGED <<normalize_vars, extractor_vars, late_vars>>

NextRoundTrip == LoadFieldsFromSchema \/ ResolveFields

SpecRoundTrip == InitRoundTrip /\ [][NextRoundTrip]_vars

\* C28: builder/resolver round trip: every field path listed from the
\* skeleton of an object record resolves against the record itself to the
\* value the record holds there, not to the absence marker, also when the
\* raw keys carry annotations or index suffixes.
C28_RoundTrip ==
    pc = "resolved" => \A p \in fields : result[p] # None

-----------------------------------------------------------------------------
(* The two dot-path resolvers side by side *)

\* both resolvers are called on the same value and path
ResolveBoth ==
    /\ pc = "start"
    /\ pc' = "resolved both"
    /\ result' = [service |-> service_get_dot_value(data, dot_path),
                  walker  |-> get_dot_value(data, dot_path)]
    /\ UNCHANGED <<normalize_vars, data, dot_path>>
    /\ UNCHANGED <<extractor_vars, parser_vars, late_vars>>

NextAgree == ResolveBoth

SpecAgree == InitWalk /\ [][NextAgree]_vars

\* C29: the two dot-path resolvers agree: for every JSON value d and every
\* path p, ExtractService._get_dot_value(d, p) equals
\* dot_walker.get_dot_value(d, p).
C29_ResolversAgree ==
    pc = "resolved both" => result.service = result.walker

\* "x.y" on {"x":[{"y":1},{"y":2}]}: both give [1,2]
C29_Witness ==
    /\ pc = "resolved both"
    /\ data = BroadcastSample
    /\ dot_path = XdotY
    /\ result.service = Arr(<<Prim("1"), Prim("2")>>)
    /\ result.walker = Arr(<<Prim("1"), Prim("2")>>)

-----------------------------------------------------------------------------
(* core/ai/insight_service.py: _split_text *)

MaxTextLen == 6

MaxChunkChars == 4

\* text[a:b] with Python's 0-based bounds, 0 <= a <= b <= len(text)
Slice(s, a, b) == SubSeq(s, a + 1, b)

\* window.rfind("\n\n"): the last 0-based position of a blank line, or -1
rfind_blank_line(window) ==
    LET at == {i \in 0..(Len(window) - 2) :
                  window[i + 1] = "\n" /\ window[i + 2] = "\n"}
    IN  IF at = {} THEN -1 ELSE SetMax(at)

\* bool(p.strip())
has_text(p) == Strip(p) # <<>>

\* line 109: [p for p in parts if p.strip()]
keep_parts_with_text(ps) == SelectSeq(ps, has_text)

\* lines 97-99 at the current start
window_end == IF Len(text) < start + chunk_chars
                THEN Len(text) ELSE start + chunk_chars

current_window == Slice(text, start, window_end)

\* line 101: there is no blank line in the second half of the window
no_good_boundary ==
    LET split_at == rfind_blank_line(current_window)
    IN  split_at = -1 \/ split_at < Len(current_window) \div 2

SplitAlphabet == {"a", " ", "\n"}

InitSplit ==
    /\ pc = "start"
    /\ text \in StringsUpTo(SplitAlphabet, MaxTextLen)
    /\ chunk_chars \in 1..MaxChunkChars
    /\ start = Idle
    /\ split_parts = Idle
    /\ result = Idle
    /\ data = Idle
    /\ dot_path = Idle
    /\ NormalizeIdle
    /\ ExtractorIdle
    /\ ParserIdle
    /\ FactoryIdle
    /\ CollectIdle
    /\ WorkerIdle

split_frame ==
    <<normalize_vars, extractor_vars, parser_vars, factory_vars, collect_vars,
      worker_vars, data, dot_path, text, chunk_chars>>

\* lines 91-92: the text fits in one chunk
ReturnWhole ==
    /\ pc = "start"
    /\ Len(text) <= chunk_chars
    /\ result' = <<text>>
    /\ pc' = "returned"
    /\ UNCHANGED <<start, split_parts>>
    /\ UNCHANGED split_frame

\* lines 94-95
EnterLoop ==
    /\ pc = "start"
    /\ Len(text) > chunk_chars
    /\ split_parts' = <<>>
    /\ start' = 0
    /\ pc' = "loop"
    /\ UNCHANGED result
    /\ UNCHANGED split_frame

\* one iteration, lines 101-104: the window is taken as it is
TakeWindow ==
    /\ pc = "loop"
    /\ start < Len(text)
    /\ no_good_boundary
    /\ split_parts' = Append(split_parts, current_window)
    /\ start' = window_end
    /\ UNCHANGED <<pc, result>>
    /\ UNCHANGED split_frame

\* one iteration, lines 105-108: the cut is made at the blank line
CutAtBlankLine ==
    /\ pc = "loop"
    /\ start < Len(text)
    /\ ~no_good_boundary
    /\ LET cut == start + rfind_blank_line(current_window)
       IN  /\ split_parts' = Append(split_parts, Slice(text, start, cut))
           /\ start' = cut + 2
    /\ UNCHANGED <<pc, result>>
    /\ UNCHANGED split_frame

\* line 109
ReturnParts ==
    /\ pc = "loop"
    /\ ~(start < Len(text))
    /\ result' = keep_parts_with_text(split_parts)
    /\ pc' = "returned"
    /\ UNCHANGED <<start, split_parts>>
    /\ UNCHANGED split_frame

NextSplit ==
    ReturnWhole \/ EnterLoop \/ TakeWindow \/ CutAtBlankLine \/ ReturnParts

SpecSplit == InitSplit /\ [][NextSplit]_vars

-----------------------------------------------------------------------------
(* Properties of _split_text *)

RECURSIVE Concat(_)
Concat(ps) == IF ps = <<>> THEN <<>> ELSE Head(ps) \o Concat(Tail(ps))

\* the characters of s that are not whitespace, in order
Ink(s) == SelectSeq(s, LAMBDA c : c \notin Whitespace)

\* p occurs in s
IsSubstring(p, s) ==
    \E a \in 0..(Len(s) - Len(p)) : Slice(s, a, a + Len(p)) = p

\* the start index grows on every iteration and stays within the text
LoopProgress ==
    [][(pc = "loop" /\ pc' = "loop") => (start' > start /\ start' <= Len(text))]_vars

\* the chunks are short substrings that keep every non-whitespace character
ChunksCoverText ==
    pc = "returned" =>
        /\ \A i \in 1..Len(result) :
              Len(result[i]) <= chunk_chars /\ IsSubstring(result[i], text)
        /\ Ink(Concat(result)) = Ink(text)

\* no returned chunk is whitespace-only
ChunksHaveText ==
    pc = "returned" => \A i \in 1..Len(result) : has_text(result[i])

\* C30: _split_text terminates for every text and every chunk_chars >= 1,
\* the start index growing on every iteration; every returned chunk is at
\* most chunk_chars long and not whitespace-only, and the chunks are
\* consecutive substrings of the text in order, so that only separating
\* blank lines and whitespace-only pieces are dropped and no non-whitespace
\* character is lost or duplicated.
C30_SplitText == LoopProgress /\ []ChunksCoverText /\ []ChunksHaveText

=============================================================================
